---------------------------- MODULE Spec2Model ----------------------------
(***************************************************************************)
(* A model of the dns-over-tls-forwarder: the priority-ordered store, the  *)
(* LRU+MFA dual-store cache built on two stores, its metrics, the DNS      *)
(* aware cache wrapper and the part of the server that reads and fills the *)
(* cache.                                                                  *)
(*                                                                         *)
(* Go indexes slices from 0; the model keeps Go's indexes in the position  *)
(* map and in item.index, and reads pq[i + 1] for Go's pq[i].              *)
(***************************************************************************)
EXTENDS Integers, Sequences, FiniteSets, TLC

VARIABLES
    uintMod,    \* Go's uint counts modulo this number
    cache,      \* the *specialized.Cache (NilCache for a nil pointer)
    newErr,     \* whether NewCache returned an error
    newSize,    \* the size NewCache was called with
    exp,        \* harness: the last value put for each key put so far
    hits,       \* harness: Gets that returned ok = true
    misses,     \* harness: Gets that returned ok = false
    nops,       \* operations done so far
    last,       \* the last operation and what it returned
    wall,       \* server: the wall clock, time.Now()
    rq,         \* server: the refresh queue, a buffered channel of queries
    lastPut,    \* server: for each key, the last response stored for it
    pools,      \* server: the pool of each upstream
    conns,      \* the upstream connections dialed so far
    tasks,      \* the goroutines of forwardMessageAndGetResponse
    calls,      \* the callers of forwardMessageAndCacheResponse
    resps,      \* the channel of each call of forwardMessageAndGetResponse
    ctxDone,    \* whether the context of RunWithHandle is done
    closer,     \* the goroutine of RunWithHandle that waits for ctx.Done()
    listening,  \* whether the listener accepts queries
    timerPc,    \* Server.timer: running or returned
    currentTime,\* server: 0 for the zero time, 1 once the ticker has ticked
    panicked,   \* whether a goroutine has panicked
    store       \* the store of TestStore, TestReset and TestCompare

oldVars == <<uintMod, cache, newErr, newSize, exp, hits, misses, nops, last,
             wall, rq, lastPut, store>>
netVars == <<pools, conns, tasks, calls, resps, ctxDone, closer, listening,
             timerPc, currentTime, panicked>>
vars == <<oldVars, netVars>>
fixedVars == <<uintMod, newErr, newSize, exp, hits, misses, nops, last,
               lastPut, store>>

harnessVars == <<exp, hits, misses>>
serverVars == <<wall, rq, lastPut>>

(***************************************************************************)
(* Bounds of the model.                                                    *)
(***************************************************************************)
\* keys are 1..MaxKeys (distinct strings); 0 is the empty string
MaxKeys == 4
\* a stand-in for 2^64, the number Go's uint counts modulo: far above every
\* clock value a run of the model reaches
MaxUint == 1073741824
\* the largest cache size the harness constructs
MaxSize == 3
\* number of Put/Get operations of one run of the cache harness
MaxOps == 6
\* names asked for are 1..MaxNames
MaxNames == 2
\* transaction IDs are 1..MaxIds
MaxIds == 2
\* number of steps (queries, refreshes, clock ticks) of one run of the server
MaxSteps == 4
\* the refresh queue of the model holds this many queries, or
\* refreshQueueSize if that is less
MaxRq == 1
\* number of goroutines of forwardMessageAndGetResponse that run at a time
\* where the pools are looked at lock by lock
MaxTasks == 2
\* number of queries the listener hands to the handler in one run
MaxServe == 2
\* number of goroutines of returned calls of forwardMessageAndGetResponse
\* that may still run when the next call starts
MaxLinger == 0
\* TestStore: the largest store and the longest sequence of operations
MaxStoreSize == 3
MaxStoreOps == 4
\* TestCompare: the largest t and a of an item
MaxCompare == 2
\* TestCache: the longest run of Puts and Gets that goes round the ring of
\* evicted keys
MaxRingOps == 8
\* the longest run of Puts of keys never seen
MaxChurn == 2
\* the largest number of upstreams a server is made with
MaxPools == 3
\* the wraparound of the clock: the number Go's uint counts modulo, the
\* longest run and the number of keys
WrapUint == 8
MaxWrapOps == 9
WrapKeys == 2
\* the refresher: the longest run, the names asked for and the places of
\* the refresh queue
MaxRefreshOps == 9
MaxRefreshNames == 3
MaxQueue == 2

\* sizes given to NewCache: the negative and zero sizes of the tests, and 1..MaxSize
Sizes == {-42, 0} \cup (1 .. MaxSize)

Keys == 1 .. MaxKeys
NoKey == 0

\* The nil interface value, and a string boxed in a Value.
Nil == [nil |-> TRUE]
StrVal(i) == [str |-> i]

Min(a, b) == IF a < b THEN a ELSE b

(***************************************************************************)
(* store: a priority queue (min heap) with a key -> position map.          *)
(***************************************************************************)
byTime == FALSE
byAccesses == TRUE

\* The zero value of item: what put returns when nothing was evicted.
ZeroItem == [key |-> NoKey, v |-> Nil, t |-> 0, a |-> 0, index |-> 0]

newStore(size, cmp) == [pq |-> <<>>, m |-> <<>>, cap |-> size, cmp |-> cmp]

\* Go's c.pq[i]
At(c, i) == c.pq[i + 1]

StoreLen(c) == Len(c.pq)

StoreCap(c) == c.cap

Has(c, key) == key \in DOMAIN c.m

\* an ordering that looks at the time alone
less_timeOnly(c, a, b) == a.t < b.t

less(c, a, b) ==
    IF c.cmp = byTime
    THEN IF a.t # b.t THEN a.t < b.t ELSE a.a < b.a
    ELSE IF a.a # b.a THEN a.a < b.a ELSE a.t < b.t

Less(c, i, j) == less(c, At(c, i), At(c, j))

\* m with m[k] = i
MapSet(m, k, i) == [x \in (DOMAIN m) \cup {k} |-> IF x = k THEN i ELSE m[x]]

MapDelete(m, k) == [x \in (DOMAIN m) \ {k} |-> m[x]]

\* a Swap that leaves the position map as it was
Swap_staleMap(c, i, j) ==
    [c EXCEPT !.pq = [c.pq EXCEPT ![i + 1] = [c.pq[j + 1] EXCEPT !.index = i],
                                  ![j + 1] = [c.pq[i + 1] EXCEPT !.index = j]]]

Swap(c, i, j) ==
    LET pq1 == [c.pq EXCEPT ![i + 1] = [c.pq[j + 1] EXCEPT !.index = i],
                            ![j + 1] = [c.pq[i + 1] EXCEPT !.index = j]]
        pq2 == IF i = j THEN [c.pq EXCEPT ![i + 1].index = j] ELSE pq1
        m1 == MapSet(c.m, pq2[i + 1].key, i)
        m2 == MapSet(m1, pq2[j + 1].key, j)
    IN [c EXCEPT !.pq = pq2, !.m = m2]

Push(c, x) ==
    LET n == Len(c.pq)
        it == [x EXCEPT !.index = n]
    IN [c EXCEPT !.pq = Append(c.pq, it), !.m = MapSet(c.m, it.key, n)]

\* returns the store without its last item, and that item
Pop(c) ==
    LET n == Len(c.pq)
        it == [c.pq[n] EXCEPT !.index = -1]
    IN [c |-> [c EXCEPT !.pq = SubSeq(c.pq, 1, n - 1),
                        !.m = MapDelete(c.m, it.key)],
        item |-> it]

(***************************************************************************)
(* container/heap, as store uses it through heap.Interface.                *)
(***************************************************************************)
RECURSIVE up(_, _)
up(c, j) ==
    LET i == IF j = 0 THEN 0 ELSE (j - 1) \div 2
    IN IF i = j \/ ~Less(c, j, i) THEN c ELSE up(Swap(c, i, j), i)

\* the loop of heap.down: the store and the position the item ends at
RECURSIVE downLoop(_, _, _)
downLoop(c, i, n) ==
    LET j1 == 2 * i + 1
        j2 == j1 + 1
        j == IF j2 < n /\ Less(c, j2, j1) THEN j2 ELSE j1
    IN IF j1 >= n THEN [c |-> c, i |-> i]
       ELSE IF ~Less(c, j, i) THEN [c |-> c, i |-> i]
       ELSE downLoop(Swap(c, i, j), j, n)

down(c, i0, n) ==
    LET r == downLoop(c, i0, n)
    IN [c |-> r.c, moved |-> r.i > i0]

RECURSIVE heapInitFrom(_, _)
heapInitFrom(c, i) ==
    IF i < 0 THEN c ELSE heapInitFrom(down(c, i, StoreLen(c)).c, i - 1)

heapInit(c) == heapInitFrom(c, (StoreLen(c) \div 2) - 1)

heapPush(c, x) ==
    LET c1 == Push(c, x)
    IN up(c1, StoreLen(c1) - 1)

heapPop(c) ==
    LET n == StoreLen(c) - 1
        c1 == Swap(c, 0, n)
        c2 == down(c1, 0, n).c
    IN Pop(c2)

heapFix(c, i) ==
    LET d == down(c, i, StoreLen(c))
    IN IF ~d.moved THEN up(d.c, i) ELSE d.c

(***************************************************************************)
(* store methods                                                           *)
(***************************************************************************)
peek(c) == At(c, 0)

\* an update that touches the item and keeps its old value
updateUnchecked_keepValue(c, now, i, v, startCount) ==
    LET c1 == [c EXCEPT !.pq[i + 1].a = @ + startCount,
                        !.pq[i + 1].t = now]
    IN heapFix(c1, i)

updateUnchecked(c, now, i, v, startCount) ==
    LET c1 == [c EXCEPT !.pq[i + 1].v = v,
                        !.pq[i + 1].a = @ + startCount,
                        !.pq[i + 1].t = now]
    IN heapFix(c1, i)

\* store.get: the store, the value and whether the key was there
storeGet(c, now, key) ==
    IF ~Has(c, key)
    THEN [c |-> c, v |-> Nil, ok |-> FALSE]
    ELSE LET i == c.m[key]
             v == At(c, i).v
         IN [c |-> updateUnchecked(c, now, i, v, 1), v |-> v, ok |-> TRUE]

\* a put that inserts into a full store without evicting
storePut_grow(c, now, key, v, startCount) ==
    IF Has(c, key)
    THEN [c |-> updateUnchecked(c, now, c.m[key], v, startCount),
          evicted |-> ZeroItem]
    ELSE [c |-> heapPush(c, [key |-> key, v |-> v, a |-> startCount,
                              t |-> now, index |-> 0]),
          evicted |-> ZeroItem]

\* a put that also bounces a candidate that is not above the minimum
storePut_bounceTies(c, now, key, v, startCount) ==
    IF Has(c, key)
    THEN [c |-> updateUnchecked(c, now, c.m[key], v, startCount),
          evicted |-> ZeroItem]
    ELSE IF StoreLen(c) < StoreCap(c)
    THEN [c |-> heapPush(c, [key |-> key, v |-> v, a |-> startCount,
                             t |-> now, index |-> 0]),
          evicted |-> ZeroItem]
    ELSE IF StoreLen(c) > 0
            /\ ~less(c, peek(c), [key |-> key, v |-> v, a |-> startCount,
                                  t |-> now, index |-> 0])
    THEN [c |-> c,
          evicted |-> [key |-> key, v |-> v, a |-> startCount, t |-> now,
                       index |-> 0]]
    ELSE [c |-> heapPush(heapPop(c).c,
                         [key |-> key, v |-> v, a |-> startCount, t |-> now,
                          index |-> 0]),
          evicted |-> heapPop(c).item]

\* a put that never bounces: a full store always gives up its minimum
storePut_swap(c, now, key, v, startCount) ==
    IF Has(c, key)
    THEN [c |-> updateUnchecked(c, now, c.m[key], v, startCount),
          evicted |-> ZeroItem]
    ELSE IF StoreLen(c) = StoreCap(c)
    THEN [c |-> heapPush(heapPop(c).c,
                         [key |-> key, v |-> v, a |-> startCount, t |-> now,
                          index |-> 0]),
          evicted |-> heapPop(c).item]
    ELSE [c |-> heapPush(c, [key |-> key, v |-> v, a |-> startCount,
                             t |-> now, index |-> 0]),
          evicted |-> ZeroItem]

\* store.put: the store and the evicted item (ZeroItem when none)
storePut(c, now, key, v, startCount) ==
    IF Has(c, key)
    THEN [c |-> updateUnchecked(c, now, c.m[key], v, startCount),
          evicted |-> ZeroItem]
    ELSE LET it == [key |-> key, v |-> v, a |-> startCount, t |-> now,
                    index |-> 0]
         IN IF StoreLen(c) = StoreCap(c)
            THEN IF StoreLen(c) > 0 /\ less(c, it, peek(c))
                 THEN [c |-> c, evicted |-> it]
                 ELSE LET p == heapPop(c)
                      IN [c |-> heapPush(p.c, it), evicted |-> p.item]
            ELSE [c |-> heapPush(c, it), evicted |-> ZeroItem]

\* an update that finds the key and leaves the item as it was
storeUpdate_untouched(c, now, key, v) ==
    [c |-> c, updated |-> Has(c, key)]

\* store.update: the store and whether the key was there
storeUpdate(c, now, key, v) ==
    IF ~Has(c, key)
    THEN [c |-> c, updated |-> FALSE]
    ELSE [c |-> updateUnchecked(c, now, c.m[key], v, 1), updated |-> TRUE]

\* the loop of reset on the byTime store: pops c into c2 with times k, k+1, ...
RECURSIVE resetLoop(_, _, _, _, _)
resetLoop(c, c2, k, i, end) ==
    IF i >= end THEN [c |-> c2, k |-> k]
    ELSE LET p == heapPop(c)
             ii == [p.item EXCEPT !.t = k, !.index = i]
             c3 == [c2 EXCEPT !.pq = Append(c2.pq, ii),
                              !.m = MapSet(c2.m, ii.key, i)]
         IN resetLoop(p.c, c3, k + 1, i + 1, end)

\* a reset that sets every time to 0 in the store ordered by time as well
reset_zeroTimes(c, start) ==
    [c |-> [c EXCEPT !.pq = [i \in DOMAIN c.pq |->
                                [c.pq[i] EXCEPT !.t = 0]]],
     k |-> start]

\* store.reset: the store and the clock to go on from
reset(c, start) ==
    IF c.cmp
    THEN [c |-> [c EXCEPT !.pq = [i \in DOMAIN c.pq |->
                                    [c.pq[i] EXCEPT !.t = 0]]],
          k |-> start]
    ELSE LET r == resetLoop(c, newStore(StoreLen(c), c.cmp), start, 0,
                            StoreLen(c))
         IN [c |-> heapInit(r.c), k |-> r.k]

(***************************************************************************)
(* metrics                                                                 *)
(***************************************************************************)
\* storeNil is Go's m.store == nil: evict metrics are off
newMetrics(bufsize, evictMetrics) ==
    [HitMFA |-> 0, MissMFA |-> 0, HitLRU |-> 0, MissLRU |-> 0, Miss |-> 0,
     RecentlyEvictedMiss |-> 0,
     store |-> <<>>,
     storeNil |-> ~evictMetrics,
     storeCap |-> IF evictMetrics THEN bufsize ELSE 0,
     pos |-> 0,
     header |-> {}]

ZeroMetrics ==
    [HitMFA |-> 0, MissMFA |-> 0, HitLRU |-> 0, MissLRU |-> 0, Miss |-> 0,
     RecentlyEvictedMiss |-> 0]

\* a hit on LRU that is not counted
hitLRU_uncounted(m) == m

hitMFA(m) == [m EXCEPT !.HitMFA = @ + 1]

hitLRU(m) == [m EXCEPT !.HitLRU = @ + 1]

missMFA(m) == [m EXCEPT !.MissMFA = @ + 1]

missLRU(m) == [m EXCEPT !.MissLRU = @ + 1]

miss(m, k) ==
    LET m1 == [m EXCEPT !.Miss = @ + 1]
    IN IF m.storeNil THEN m1
       ELSE IF k \in m.header
            THEN [m1 EXCEPT !.RecentlyEvictedMiss = @ + 1]
            ELSE m1

evict(m, k) ==
    IF m.storeNil THEN m
    ELSE IF Len(m.store) < m.storeCap
         THEN [m EXCEPT !.pos = Len(m.store),
                        !.store = Append(m.store, k),
                        !.header = @ \cup {k}]
         ELSE LET pos == (m.pos + 1) % m.storeCap
              IN [m EXCEPT !.pos = pos,
                           !.header = (@ \ {m.store[pos + 1]}) \cup {k},
                           !.store[pos + 1] = k]

Hit(m) == m.HitMFA + m.HitLRU

Tot(m) == Hit(m) + m.Miss

(***************************************************************************)
(* Cache: the LRU + MFA cache.  SetTimer is never called in the            *)
(* repository, so timeNow is nil and now() is the built-in counter.        *)
(***************************************************************************)
\* a nil *Cache: what NewCache returns for size <= 0
NilCache == [nil |-> TRUE]

\* the largest supported size: ^uint(0) >> 1
maxsize == (uintMod \div 2) - 1

\* a NewCache for which only a negative size gives the cache that does nothing
NewCache_zeroRejected(size, evictMetrics) ==
    IF size < 0 THEN [c |-> NilCache, err |-> FALSE]
    ELSE [c |-> NilCache, err |-> TRUE]

\* NewCache: the cache and whether an error was returned
NewCache(size, evictMetrics) ==
    IF size <= 0 THEN [c |-> NilCache, err |-> FALSE]
    ELSE IF size < 2 THEN [c |-> NilCache, err |-> TRUE]
    ELSE IF size > maxsize THEN [c |-> NilCache, err |-> TRUE]
    ELSE [c |-> [lru |-> newStore(size \div 2, byTime),
                 mfa |-> newStore((size \div 2) + (size % 2), byAccesses),
                 t |-> 0,
                 capacity |-> size,
                 m |-> newMetrics(size, evictMetrics)],
          err |-> FALSE]

\* Cache.now once both stores are reset: r1 and r2 are the results of
\* the resets of LRU and MFA
nowDone(cc, r1, r2) == [cc EXCEPT !.lru = r1.c, !.mfa = r2.c, !.t = r2.k]

\* Cache.now once LRU is reset
nowMFA(cc, r1) == nowDone(cc, r1, reset(cc.mfa, r1.k))

\* Cache.now: the cache with its clock advanced; the time is the new cc.t
now(cc) ==
    LET t1 == (cc.t + 1) % uintMod
    IN IF t1 = 0 THEN nowMFA(cc, reset(cc.lru, t1))
       ELSE [cc EXCEPT !.t = t1]

\* Cache.Get after the lookups: g1 is the result of mfa.get, g2 of lru.get
GetIn(c1, k, g1, g2) ==
    IF g1.ok
    THEN [c |-> [c1 EXCEPT !.mfa = g1.c, !.m = hitMFA(@)],
          v |-> g1.v, ok |-> TRUE]
    ELSE IF g2.ok
    THEN [c |-> [c1 EXCEPT !.lru = g2.c, !.m = hitLRU(missMFA(@))],
          v |-> g2.v, ok |-> TRUE]
    ELSE [c |-> [c1 EXCEPT !.m = miss(missLRU(missMFA(@)), k)],
          v |-> Nil, ok |-> FALSE]

\* Cache.Get after the clock is read
GetAt(c1, k) ==
    GetIn(c1, k, storeGet(c1.mfa, c1.t, k), storeGet(c1.lru, c1.t, k))

\* Cache.Get: the cache, the value and ok
Get(cc, k) ==
    IF cc = NilCache THEN [c |-> cc, v |-> Nil, ok |-> FALSE]
    ELSE GetAt(now(cc), k)

\* an end of Cache.Put that does not record what the demotion pushes out of
\* LRU
PutDemoted_unrecorded(c1, p) == [c1 EXCEPT !.lru = p.c]

\* The end of Cache.Put, after lru.put(mfaovf) returned p
PutDemoted(c1, p) ==
    IF p.evicted.v = Nil
    THEN [c1 EXCEPT !.lru = p.c]
    ELSE [c1 EXCEPT !.lru = p.c, !.m = evict(@, p.evicted.key)]

\* a demotion that also takes back an item with as many accesses as the
\* minimum of LRU
PutDemote_atLeast(c1, mfaovf) ==
    IF StoreLen(c1.lru) <= 0 \/ peek(c1.lru).a > mfaovf.a
    THEN [c1 EXCEPT !.m = evict(@, mfaovf.key)]
    ELSE PutDemoted(c1, storePut(c1.lru, c1.t, mfaovf.key, mfaovf.v, 1))

\* The end of Cache.Put: mfaovf was displaced from MFA by a promotion.
PutDemote(c1, mfaovf) ==
    IF StoreLen(c1.lru) <= 0 \/ peek(c1.lru).a >= mfaovf.a
    THEN [c1 EXCEPT !.m = evict(@, mfaovf.key)]
    ELSE PutDemoted(c1, storePut(c1.lru, c1.t, mfaovf.key, mfaovf.v, 1))

\* a Put that never promotes: what LRU evicts is dropped
PutPromote_drop(c1, lruovf) == [c1 EXCEPT !.m = evict(@, lruovf.key)]

\* The middle of Cache.Put, after mfa.put(lruovf) returned p
PutPromoted(c1, p) ==
    IF p.evicted.v = Nil THEN [c1 EXCEPT !.mfa = p.c]
    ELSE PutDemote([c1 EXCEPT !.mfa = p.c], p.evicted)

\* a Put that promotes what LRU evicts whatever its accesses: it takes the
\* place of the minimum of a full MFA
PutPromote_always(c1, lruovf) ==
    PutPromoted(c1, storePut_swap(c1.mfa, c1.t, lruovf.key, lruovf.v,
                                  lruovf.a))

\* The middle of Cache.Put: lruovf was evicted from LRU by the new key.
PutPromote(c1, lruovf) ==
    IF StoreLen(c1.mfa) < StoreCap(c1.mfa)
    THEN [c1 EXCEPT !.mfa = storePut(@, c1.t, lruovf.key, lruovf.v,
                                     lruovf.a).c]
    ELSE IF peek(c1.mfa).a > lruovf.a
            \/ (peek(c1.mfa).a = lruovf.a /\ peek(c1.mfa).t < lruovf.t)
    THEN [c1 EXCEPT !.m = evict(@, lruovf.key)]
    ELSE PutPromoted(c1, storePut(c1.mfa, c1.t, lruovf.key, lruovf.v,
                                  lruovf.a))

\* Cache.Put after the updates and lru.put: u1 is the result of
\* mfa.update, u2 of lru.update and p of lru.put
PutIn(c1, u1, u2, p) ==
    IF u1.updated THEN [c1 EXCEPT !.mfa = u1.c]
    ELSE IF u2.updated THEN [c1 EXCEPT !.lru = u2.c]
    ELSE IF p.evicted.v = Nil THEN [c1 EXCEPT !.lru = p.c]
    ELSE PutPromote([c1 EXCEPT !.lru = p.c], p.evicted)

\* Cache.Put after the clock is read
PutAt(c1, k, v) ==
    PutIn(c1, storeUpdate(c1.mfa, c1.t, k, v),
          storeUpdate(c1.lru, c1.t, k, v), storePut(c1.lru, c1.t, k, v, 1))

\* Cache.Put after the clock is read, without the update of MFA
PutAt_skipMFA(c1, k, v) ==
    PutIn(c1, [c |-> c1.mfa, updated |-> FALSE],
          storeUpdate(c1.lru, c1.t, k, v), storePut(c1.lru, c1.t, k, v, 1))

\* a Put that does not look for the key in MFA first
Put_skipMFA(cc, k, v) ==
    IF cc = NilCache THEN cc ELSE PutAt_skipMFA(now(cc), k, v)

\* Cache.Put
Put(cc, k, v) ==
    IF cc = NilCache THEN cc ELSE PutAt(now(cc), k, v)

CacheLen(cc) ==
    IF cc = NilCache THEN 0 ELSE StoreLen(cc.lru) + StoreLen(cc.mfa)

CacheCap(cc) ==
    IF cc = NilCache THEN 0 ELSE StoreCap(cc.lru) + StoreCap(cc.mfa)

Metrics(cc) ==
    IF cc = NilCache THEN ZeroMetrics
    ELSE [f \in DOMAIN ZeroMetrics |-> cc.m[f]]

(***************************************************************************)
(* The state of the running server: pools, connections, the goroutines of  *)
(* forwardMessageAndGetResponse and their channels.                        *)
(***************************************************************************)
connectionsPerUpstream == 2

\* a nil *dns.Msg
NilMsg == [nilmsg |-> TRUE]

\* len(s.pools) with the default upstreams
NPools == 2
Pools == 1 .. NPools
NoConn == 0

\* the callers of forwardMessageAndCacheResponse: the handler of the
\* listener and the refresher
Callers == {"serve", "refresh"}

\* the calls of forwardMessageAndGetResponse for one query: the first one
\* and connectionsPerUpstream retries
Attempts == 0 .. connectionsPerUpstream

\* the connections of one upstream: one for every goroutine there can be
\* and one for every place in the buffer of its pool
ConnIds ==
    1 .. (Cardinality(Callers) * (connectionsPerUpstream + 1)
          + connectionsPerUpstream)

\* what a goroutine of forwardMessageAndGetResponse has in r: nothing, a
\* response with an acceptable rcode, or a response with another rcode
Kinds == {"nil", "ok", "bad"}

\* newPool
newPool(size) ==
    [buf |-> <<>>, size |-> size, closed |-> FALSE, chClosed |-> FALSE,
     readers |-> 0, writer |-> FALSE, waiting |-> FALSE, shutdowns |-> 0]

NoTask == [pc |-> "none", conn |-> NoConn, r |-> "nil"]
NewTask == [pc |-> "get", conn |-> NoConn, r |-> "nil"]
NoCall == [pc |-> "idle", q |-> NilMsg, a |-> 0, n |-> 0, reply |-> "none",
           nils |-> {}, served |-> 0]
\* a connection of an upstream: whether it is open, its deadline, and
\* whether a goroutine started by exchangeMessages of package server waits
\* to set its deadline: one started by the goroutine that holds the
\* connection (helper), one started by a goroutine that has put the
\* connection back since (stale); and whether the upstream has given the
\* connection up, so that WriteMsg or ReadMsg on it fails (dead)
NoConnRec ==
    [st |-> "none", dl |-> "none", helper |-> FALSE, stale |-> FALSE,
     dead |-> FALSE]
NewConn == [NoConnRec EXCEPT !.st = "open"]
\* Close: a closed connection is no longer told from one that was never
\* dialed, and SetDeadline does nothing to it
connClose(cn) == NoConnRec

\* the state of the server before RunWithHandle starts anything
NetIdle ==
    /\ pools = [p \in Pools |-> newPool(connectionsPerUpstream)]
    /\ conns = [p \in Pools |-> [i \in ConnIds |-> NoConnRec]]
    /\ tasks = [c \in Callers |-> [a \in Attempts |-> [p \in Pools |-> NoTask]]]
    /\ calls = [c \in Callers |-> NoCall]
    /\ resps = [c \in Callers |-> [a \in Attempts |-> <<>>]]
    /\ ctxDone = FALSE
    /\ closer = [pc |-> "wait", p |-> 1]
    /\ listening = TRUE
    /\ timerPc = "run"
    /\ currentTime = 0
    /\ panicked = FALSE

(***************************************************************************)
(* The cache harness: Fuzz's loop over a sequence of Put and Get, with its *)
(* map exp of what was put and its counts of hits and misses.              *)
(*                                                                         *)
(* The cache compares keys for equality only and never looks into a value  *)
(* (but for v == nil), so runs are explored up to renaming: a key not used *)
(* before is the next unused one, and the n-th operation puts the string n.*)
(***************************************************************************)
NoOp == [op |-> "none", k |-> NoKey, v |-> Nil, ok |-> FALSE, seen |-> {}]

\* the keys an operation may name: those used so far and the next one
usedKeys == {k \in Keys : k \in DOMAIN exp \/ k \in last.seen}
NextKeys == {k \in Keys : k <= Cardinality(usedKeys) + 1}

InitCache ==
    /\ uintMod = MaxUint
    /\ newSize \in Sizes
    /\ cache = NewCache(newSize, TRUE).c
    /\ newErr = NewCache(newSize, TRUE).err
    /\ wall = [s |-> 0, h |-> 0]
    /\ rq = <<>>
    /\ lastPut = <<>>
    /\ exp = <<>>
    /\ hits = 0
    /\ misses = 0
    /\ nops = 0
    /\ last = NoOp
    /\ store = newStore(0, byTime)
    /\ NetIdle

DoPut(k) ==
    LET v == StrVal(nops + 1)
    IN /\ ~newErr
       /\ nops < MaxOps
       /\ cache' = Put(cache, k, v)
       /\ exp' = MapSet(exp, k, v)
       /\ nops' = nops + 1
       /\ last' = [op |-> "put", k |-> k, v |-> v, ok |-> FALSE,
                   seen |-> last.seen \cup {k}]
       /\ UNCHANGED <<uintMod, newErr, newSize, hits, misses, serverVars, netVars, store>>

DoGet(k) ==
    /\ ~newErr
    /\ nops < MaxOps
    /\ \E r \in {Get(cache, k)} :
          /\ cache' = r.c
          /\ hits' = IF r.ok THEN hits + 1 ELSE hits
          /\ misses' = IF r.ok THEN misses ELSE misses + 1
          /\ last' = [op |-> "get", k |-> k, v |-> r.v, ok |-> r.ok,
                      seen |-> last.seen \cup {k}]
    /\ nops' = nops + 1
    /\ UNCHANGED <<uintMod, newErr, newSize, exp, serverVars, netVars, store>>

NextCache ==
    \/ \E k \in NextKeys : DoPut(k)
    \/ \E k \in NextKeys : DoGet(k)

SpecCache == InitCache /\ [][NextCache]_vars

(***************************************************************************)
(* DNS messages.  A message is modelled by the fields the cache wrapper    *)
(* and the server read or write: Id, Rcode, Truncated, Compress, the       *)
(* question section and the answer section (each record a TTL and data).   *)
(***************************************************************************)
RcodeSuccess == 0
RcodeNameError == 3


Names == 1 .. MaxNames
Ids == 1 .. MaxIds

\* a query with one question for the name, type A, class IN
Query(id, name) ==
    [Id |-> id, Rcode |-> RcodeSuccess, Truncated |-> FALSE,
     Compress |-> FALSE,
     Question |-> <<[Name |-> name, Qtype |-> 1, Qclass |-> 1]>>,
     Answer |-> <<>>]

Queries == {Query(id, name) : id \in Ids, name \in Names}

\* What an upstream may answer: a rcode, the TTLs of the answer records and
\* the TC bit.
Replies ==
    {[rcode |-> RcodeSuccess, ttls |-> <<10>>, tc |-> FALSE],
     [rcode |-> RcodeSuccess, ttls |-> <<1000, 900>>, tc |-> TRUE],
     [rcode |-> RcodeNameError, ttls |-> <<>>, tc |-> FALSE]}

\* the response an upstream sends to query q for a reply
Response(q, rep) ==
    [Id |-> q.Id, Rcode |-> rep.rcode, Truncated |-> rep.tc,
     Compress |-> FALSE,
     Question |-> q.Question,
     Answer |-> [i \in DOMAIN rep.ttls |-> [Ttl |-> rep.ttls[i], Data |-> i]]]

(***************************************************************************)
(* Time.  An instant is s seconds and h half seconds (h is 0 or 1), so     *)
(* that the truncation of a duration to whole seconds is visible.  The     *)
(* epoch is chosen so that the clock of a run ends at 0: the wrapper adds  *)
(* maxTTL = 2^31 - 1 seconds to the current time.                          *)
(***************************************************************************)
\* cache.go: minTTL = 5 * time.Minute, in seconds
minTTL == 300
\* cache.go: maxTTL = 2147483647 * time.Second, in seconds
maxTTL == 2147483647
\* cache.go: the TTL of a soft-expired answer
staleTTL == 60

\* time.Time.Add of a whole number of seconds
TimeAdd(t, secs) == [s |-> t.s + secs, h |-> t.h]

\* time.Time.Before
Before(a, b) == a.s < b.s \/ (a.s = b.s /\ a.h < b.h)

\* uint32(time.Since(e).Seconds() * -1) read at time t, for e not before t:
\* the whole seconds from t to e
SecondsUntil(e, t) == IF e.h >= t.h THEN e.s - t.s ELSE e.s - t.s - 1

(***************************************************************************)
(* cache: the DNS aware wrapper of Cache.  Its values are cacheValue:      *)
(* a message m and its expiry exp.                                         *)
(***************************************************************************)
\* key: the text of the first question (its name, class and type)
key(k) == <<k.Question[1].Name, k.Question[1].Qclass, k.Question[1].Qtype>>

\* a copy that shares the answer records with the original
Copy_shallow(m) == [msg |-> m, shared |-> TRUE]

\* dns.Msg.Copy: a deep copy; shared tells whether writes to the copy's
\* answer records reach the original's
Copy(m) == [msg |-> m, shared |-> FALSE]

\* the item of key k in either store, for writing through a shared record
WithAnswers(cc, k, answers) ==
    LET upd(st) ==
            IF Has(st, k)
            THEN [st EXCEPT !.pq[st.m[k] + 1].v.m.Answer = answers]
            ELSE st
    IN [cc EXCEPT !.mfa = upd(@), !.lru = upd(@)]

\* a fresh TTL that is not raised to minTTL
freshTTL_unclamped(e, t) == SecondsUntil(e, t)

\* the TTL get gives the answers of an entry that is not soft-expired
freshTTL(e, t) ==
    LET ttl == SecondsUntil(e, t)
    IN IF ttl < minTTL THEN minTTL ELSE ttl

\* a get that reports every entry it finds as expired
cacheGetOf_neverFresh(g, k, t, mk) ==
    IF ~g.ok \/ g.v = Nil
    THEN [c |-> g.c, m |-> NilMsg, ok |-> FALSE]
    ELSE [c |-> g.c,
          m |-> [g.v.m EXCEPT
                    !.Id = mk.Id,
                    !.Answer = [i \in DOMAIN g.v.m.Answer |->
                                   [g.v.m.Answer[i] EXCEPT !.Ttl = staleTTL]]],
          ok |-> FALSE]

\* cache.get at time t, after Cache.Get returned g
cacheGetOf(g, k, t, mk) ==
    IF ~g.ok \/ g.v = Nil
    THEN [c |-> g.c, m |-> NilMsg, ok |-> FALSE]
    ELSE LET v == g.v
             cp == Copy(v.m)
             expired == Before(v.exp, t)
             answers ==
                 [i \in DOMAIN cp.msg.Answer |->
                     [cp.msg.Answer[i] EXCEPT
                         !.Ttl = IF expired THEN staleTTL
                                 ELSE freshTTL(v.exp, t)]]
             mv == [cp.msg EXCEPT !.Id = mk.Id, !.Answer = answers]
         IN [c |-> IF cp.shared THEN WithAnswers(g.c, k, answers)
                   ELSE g.c,
             m |-> mv,
             ok |-> ~expired]

\* cache.get at time t: the Cache, the message returned and the hit flag
cacheGet(cc, t, mk) == cacheGetOf(Get(cc, key(mk)), key(mk), t, mk)

\* the loop of cache.put over the answers: the earliest expiry
RECURSIVE minExpiration(_, _, _, _)
minExpiration(answers, i, t, cur) ==
    IF i > Len(answers) THEN cur
    ELSE LET ttl == IF answers[i].Ttl < minTTL THEN minTTL
                    ELSE answers[i].Ttl
             e == TimeAdd(t, ttl)
         IN minExpiration(answers, i + 1, t,
                          IF Before(e, cur) THEN e ELSE cur)

\* a value whose expiry looks at the first answer only
cacheValue_firstAnswer(v, t) ==
    [m |-> [Copy(v).msg EXCEPT !.Truncated = FALSE, !.Compress = TRUE],
     exp |-> minExpiration(SubSeq(v.Answer, 1, Min(1, Len(v.Answer))), 1, t,
                           TimeAdd(t, maxTTL))]

\* the value cache.put stores for response v at time t
cacheValue(v, t) ==
    [m |-> [Copy(v).msg EXCEPT !.Truncated = FALSE, !.Compress = TRUE],
     exp |-> minExpiration(v.Answer, 1, t, TimeAdd(t, maxTTL))]

\* a put that stores every response, whatever its rcode
cachePut_anyRcode(cc, t, k, v) == Put(cc, key(k), cacheValue(v, t))

\* a put that leaves the entry of a key the cache holds as it is
cachePut_onlyNew(cc, t, k, v) ==
    IF v.Rcode # RcodeSuccess \/ Get(cc, key(k)).ok THEN cc
    ELSE Put(cc, key(k), cacheValue(v, t))

\* cache.put at time t
cachePut(cc, t, k, v) ==
    IF v.Rcode # RcodeSuccess THEN cc
    ELSE Put(cc, key(k), cacheValue(v, t))

(***************************************************************************)
(* Server: the part that reads and fills the cache.  What a call of        *)
(* forwardMessageAndGetResponse returns is the upstreams' doing: nothing,  *)
(* or a response with rcode NOERROR or NXDOMAIN.                           *)
(***************************************************************************)
defaultCacheSize == 65536
refreshQueueSize == 2048

\* the cache sizes the server is constructed with
ServerSizes == {-1, 1, 2}

\* NewServer: the size newCache is called with
serverCacheSize(cacheSize) ==
    IF cacheSize = 0 THEN defaultCacheSize
    ELSE IF cacheSize < 0 THEN 0
    ELSE cacheSize

\* The outcome of the upstreams for one query: the first nfail calls of
\* forwardMessageAndGetResponse return nothing and the next one returns the
\* response for rep.  Which response follows a failed call makes no
\* difference to the retry loop, so one of them stands for all.
Outcomes ==
    {[nfail |-> 0, rep |-> r] : r \in Replies}
    \cup {[nfail |-> n, rep |-> [rcode |-> RcodeSuccess, ttls |-> <<10>>,
                                tc |-> FALSE]] :
              n \in 1 .. (connectionsPerUpstream + 1)}

\* what the i-th call of forwardMessageAndGetResponse for q returns
forwardMessageAndGetResponse(q, out, i) ==
    IF i <= out.nfail THEN NilMsg ELSE Response(q, out.rep)

\* a retry loop that tries once more than connectionsPerUpstream times
RECURSIVE retryLoop_oneMore(_, _, _, _, _)
retryLoop_oneMore(q, out, m, n, cnt) ==
    IF m = NilMsg /\ cnt <= connectionsPerUpstream
    THEN retryLoop_oneMore(q, out,
                           forwardMessageAndGetResponse(q, out, n + 1),
                           n + 1, cnt + 1)
    ELSE [m |-> m, calls |-> n]

\* the retry loop of forwardMessageAndCacheResponse: m is the last result,
\* n the calls made so far, cnt the loop counter
RECURSIVE retryLoop(_, _, _, _, _)
retryLoop(q, out, m, n, cnt) ==
    IF m = NilMsg /\ cnt < connectionsPerUpstream
    THEN retryLoop(q, out, forwardMessageAndGetResponse(q, out, n + 1),
                   n + 1, cnt + 1)
    ELSE [m |-> m, calls |-> n]

\* forwardMessageAndCacheResponse at time t: the Cache, the message
\* returned and the number of calls of forwardMessageAndGetResponse
forwardMessageAndCacheResponse(cc, t, q, out) ==
    LET r == retryLoop(q, out, forwardMessageAndGetResponse(q, out, 1), 1, 0)
    IN IF r.m = NilMsg
       THEN [c |-> cc, m |-> NilMsg, calls |-> r.calls]
       ELSE [c |-> cachePut(cc, t, q, r.m), m |-> r.m, calls |-> r.calls]

\* the capacity of rq: make(chan *dns.Msg, refreshQueueSize), scaled down
rqSize == Min(refreshQueueSize, MaxRq)

\* a refresh that always sends
refresh_unbounded(queue, q) == Append(queue, q)

\* Server.refresh: a send on rq that does not block
refresh(queue, q) ==
    IF Len(queue) < rqSize THEN Append(queue, q) ELSE queue

\* the responses stored so far, after cache.put(q, m)
Stored(log, q, m) ==
    IF m # NilMsg /\ m.Rcode = RcodeSuccess THEN MapSet(log, key(q), m)
    ELSE log

NoAnswer ==
    [op |-> "none", q |-> NilMsg, m |-> NilMsg, from |-> "none",
     calls |-> 0, nfail |-> 0]

InitServer ==
    /\ uintMod = MaxUint
    /\ \E cacheSize \in ServerSizes :
          /\ newSize = serverCacheSize(cacheSize)
          /\ cache = NewCache(newSize, FALSE).c
          /\ newErr = NewCache(newSize, FALSE).err
    /\ exp = <<>>
    /\ hits = 0
    /\ misses = 0
    /\ nops = 0
    /\ last = NoAnswer
    /\ wall = [s |-> 0 - (MaxSteps * (minTTL + 1)), h |-> 0]
    /\ rq = <<>>
    /\ lastPut = <<>>
    /\ store = newStore(0, byTime)
    /\ NetIdle

\* Server.GetAnswer for query q
GetAnswer(q, out) ==
    /\ ~newErr
    /\ nops < MaxSteps
    /\ nops' = nops + 1
    /\ \E g \in {cacheGet(cache, wall, q)} :
          IF g.ok
          THEN /\ cache' = g.c
               /\ last' = [op |-> "answer", q |-> q, m |-> g.m,
                           from |-> "fresh", calls |-> 0, nfail |-> 0]
               /\ UNCHANGED <<rq, lastPut>>
          ELSE IF g.m # NilMsg
          THEN /\ cache' = g.c
               /\ rq' = refresh(rq, q)
               /\ last' = [op |-> "answer", q |-> q, m |-> g.m,
                           from |-> "stale", calls |-> 0, nfail |-> 0]
               /\ UNCHANGED lastPut
          ELSE \E f \in {forwardMessageAndCacheResponse(g.c, wall, q, out)} :
               /\ cache' = f.c
               /\ lastPut' = Stored(lastPut, q, f.m)
               /\ last' = [op |-> "answer", q |-> q, m |-> f.m,
                           from |-> "upstream", calls |-> f.calls,
                           nfail |-> out.nfail]
               /\ UNCHANGED rq
    /\ UNCHANGED <<uintMod, newErr, newSize, harnessVars, wall, netVars, store>>

\* one turn of Server.refresher: a query is taken from rq and resolved
Refresher(out) ==
    /\ ~newErr
    /\ nops < MaxSteps
    /\ rq # <<>>
    /\ \E f \in {forwardMessageAndCacheResponse(cache, wall, Head(rq), out)} :
          /\ cache' = f.c
          /\ lastPut' = Stored(lastPut, Head(rq), f.m)
          /\ last' = [op |-> "refresh", q |-> Head(rq), m |-> f.m,
                      from |-> "upstream", calls |-> f.calls,
                      nfail |-> out.nfail]
    /\ rq' = Tail(rq)
    /\ nops' = nops + 1
    /\ UNCHANGED <<uintMod, newErr, newSize, harnessVars, wall, netVars, store>>

\* time passes: half a second, or just over minTTL
Tick(secs, half) ==
    /\ ~newErr
    /\ nops < MaxSteps
    /\ wall' = IF half = 1 /\ wall.h = 1
               THEN [s |-> wall.s + secs + 1, h |-> 0]
               ELSE [s |-> wall.s + secs, h |-> wall.h + half]
    /\ nops' = nops + 1
    /\ last' = [NoAnswer EXCEPT !.op = "tick"]
    /\ UNCHANGED <<uintMod, cache, newErr, newSize, harnessVars, rq, lastPut,
                   netVars, store>>

\* the names and ids in the state: those of the responses stored, of the
\* queries waiting in rq and of the last query
seenQueries ==
    {lastPut[k] : k \in DOMAIN lastPut} \cup {rq[i] : i \in DOMAIN rq}
    \cup (IF last.q = NilMsg THEN {} ELSE {last.q})

seenNames == {m.Question[1].Name : m \in seenQueries}

seenIds == {m.Id : m \in seenQueries}

\* Names and ids are told apart by equality only, so a run takes them in
\* order: the next query has a name and an id already seen, or the first
\* of those not seen.
NextQueries ==
    {Query(id, name) : id \in 1 .. Min(MaxIds, Cardinality(seenIds) + 1),
                       name \in 1 .. Min(MaxNames, Cardinality(seenNames) + 1)}

\* the outcomes that differ for a query: what upstream does matters only
\* when the cache holds nothing for q
outcomesFor(q) ==
    IF cacheGet(cache, wall, q).m = NilMsg THEN Outcomes
    ELSE {CHOOSE o \in Outcomes : TRUE}

NextServer ==
    \/ \E q \in NextQueries : \E out \in outcomesFor(q) : GetAnswer(q, out)
    \/ \E out \in Outcomes : Refresher(out)
    \/ Tick(0, 1)
    \/ Tick(minTTL + 1, 0)

SpecServer == InitServer /\ [][NextServer]_vars

(***************************************************************************)
(* The running server: the listener's handler and the refresher call       *)
(* forwardMessageAndCacheResponse, every call of                           *)
(* forwardMessageAndGetResponse starts one goroutine per pool, the         *)
(* goroutines take connections from the pools and give them back, the      *)
(* timer sets currentTime, and the goroutine started by RunWithHandle      *)
(* shuts the listener and the pools down once the context is done.         *)
(* A step is one operation on shared state (a lock, a channel, the cache)  *)
(* with the local code that follows it.                                    *)
(***************************************************************************)
\* the response of kind "ok" and the one of kind "bad" for query q
OkReply == [rcode |-> RcodeSuccess, ttls |-> <<10>>, tc |-> FALSE]
RcodeServerFailure == 2
BadReply == [rcode |-> RcodeServerFailure, ttls |-> <<>>, tc |-> FALSE]
MsgOf(q, kind) ==
    IF kind = "ok" THEN Response(q, OkReply)
    ELSE IF kind = "bad" THEN Response(q, BadReply)
    ELSE NilMsg

\* NewServer(2, false) with the default upstreams
InitNet ==
    /\ uintMod = MaxUint
    /\ newSize = 2
    /\ cache = NewCache(newSize, FALSE).c
    /\ newErr = NewCache(newSize, FALSE).err
    /\ exp = <<>>
    /\ hits = 0
    /\ misses = 0
    /\ nops = 0
    /\ last = NoAnswer
    /\ wall = [s |-> 0 - (minTTL + 1), h |-> 0]
    /\ rq = <<>>
    /\ lastPut = <<>>
    /\ store = newStore(0, byTime)
    /\ NetIdle

\* sync.RWMutex: RLock goes through when no writer holds the lock or
\* waits for it
CanRLock(pl) == ~pl.writer /\ ~pl.waiting

\* sync.RWMutex: Lock goes through when nobody holds the lock
CanLock_ignoringReaders(pl) == ~pl.writer
CanLock(pl) == pl.readers = 0 /\ ~pl.writer

\* call a of caller c is in its receive loop
Current(c, a) == calls[c].pc = "recv" /\ calls[c].a = a

\* the goroutines that run
Running ==
    {t \in Callers \X Attempts \X Pools :
        tasks[t[1]][t[2]][t[3]].pc \notin {"none", "done"}}

\* the connections the connector of pool p can return: those not dialed
\* yet, and those closed, which nothing refers to any more
FreeConns(cs) == {i \in ConnIds : cs[i].st # "open"}

\* the connection the connector returns
Dialed(cs) == CHOOSE j \in FreeConns(cs) : \A k \in FreeConns(cs) : j <= k

\* the select of pool.get on pool pl, cs the connections of its upstream:
\* a buffered connection, or else p.c(), which returns a new connection or
\* an error.  A receive from the closed and empty channel yields a nil
\* connection (conn = NoConn without err), which the caller dereferences.
poolTake(pl, cs) ==
    IF pl.buf # <<>>
    THEN {[pl |-> [pl EXCEPT !.buf = Tail(@)], cs |-> cs,
           conn |-> Head(pl.buf), err |-> FALSE]}
    ELSE IF pl.chClosed
    THEN {[pl |-> pl, cs |-> cs, conn |-> NoConn, err |-> FALSE]}
    ELSE {[pl |-> pl, cs |-> cs, conn |-> NoConn, err |-> TRUE]}
         \cup {[pl |-> pl,
                cs |-> [cs EXCEPT ![i] = NewConn],
                conn |-> i, err |-> FALSE] :
                   i \in IF FreeConns(cs) = {} THEN {} ELSE {Dialed(cs)}}

\* the select of pool.put of connection i: into the buffer if it has room,
\* closed if not.  A send on a closed channel panics.
poolGive(pl, cs, i) ==
    IF pl.chClosed THEN [pl |-> pl, cs |-> cs, panic |-> TRUE]
    ELSE IF Len(pl.buf) < pl.size
    THEN [pl |-> [pl EXCEPT !.buf = Append(@, i)], cs |-> cs,
          panic |-> FALSE]
    ELSE [pl |-> pl, cs |-> [cs EXCEPT ![i] = connClose(@)], panic |-> FALSE]

\* the connections in the buffer of pool pl
Buffered(pl) == {pl.buf[i] : i \in DOMAIN pl.buf}

\* pool.shutdown after close(p.buf): for c := range p.buf { c.Close() }
poolDrain(pl, cs) ==
    [pl |-> [pl EXCEPT !.buf = <<>>],
     cs |-> [i \in ConnIds |->
                IF i \in Buffered(pl) THEN connClose(cs[i]) ELSE cs[i]]]

\* the deadlines SetDeadline(s.now().Add(connectionTimeout)) can set:
\* currentTime is the zero time until the first tick, and stands still
\* once the timer has returned
Deadlines ==
    IF currentTime = 0 THEN {"past"}
    ELSE IF timerPc = "returned" THEN {"past", "future"}
    ELSE {"future"}

\* what WriteMsg and ReadMsg can come to under deadline dl: with the
\* deadline in the past only an error
Exchanges(dl) == IF dl = "past" THEN {"nil"} ELSE Kinds

\* a goroutine ends: it is remembered as long as its call has not returned
Ended(c, a, r) ==
    IF Current(c, a) THEN [pc |-> "done", conn |-> NoConn, r |-> r]
    ELSE NoTask

\* resps <- r for call a of caller c.  The channel of a call that has
\* returned is not read again, and what is sent on it is lost; it has
\* room for it: there are two pools, so the goroutines send at most four
\* values, at least one was received before the call returned, and three
\* are sent only if one of them was acceptable and was received.
Sent_dropNil(c, a, r) ==
    IF Current(c, a) /\ r # "nil" THEN [resps EXCEPT ![c][a] = Append(@, r)]
    ELSE resps
Sent(c, a, r) ==
    IF Current(c, a) THEN [resps EXCEPT ![c][a] = Append(@, r)] ELSE resps

\* an exchange that gives the connection back whatever came of it
T_Exchange_keepConn(c, a, p) ==
    /\ tasks[c][a][p].pc = "io"
    /\ tasks[c][a][p].conn # NoConn
    /\ \E dl \in Deadlines : \E k \in Exchanges(dl) :
          /\ conns' = [conns EXCEPT ![p][tasks[c][a][p].conn].dl = dl]
          /\ tasks' = [tasks EXCEPT ![c][a][p].pc = "put",
                                    ![c][a][p].r = k]
    /\ UNCHANGED <<pools, calls, resps, ctxDone, closer, listening, timerPc,
                   currentTime, panicked, oldVars>>

\* exchangeMessages after pool.get: a nil connection is dereferenced; or
\* SetDeadline, WriteMsg, ReadMsg, and Close on an error or a nil response
T_Exchange(c, a, p) ==
    /\ tasks[c][a][p].pc = "io"
    /\ IF tasks[c][a][p].conn = NoConn
       THEN /\ panicked' = TRUE
            /\ tasks' = [tasks EXCEPT ![c][a][p] = NoTask]
            /\ UNCHANGED conns
       ELSE /\ UNCHANGED panicked
            /\ \E dl \in Deadlines : \E k \in Exchanges(dl) :
                 IF k = "nil"
                 THEN /\ conns' = [conns EXCEPT
                                      ![p][tasks[c][a][p].conn] = connClose(@)]
                      /\ tasks' = [tasks EXCEPT ![c][a][p] =
                                      [pc |-> "send1", conn |-> NoConn,
                                       r |-> "nil"]]
                 ELSE /\ conns' = [conns EXCEPT
                                      ![p][tasks[c][a][p].conn].dl = dl]
                      /\ tasks' = [tasks EXCEPT ![c][a][p].pc = "put",
                                                ![c][a][p].r = k]
    /\ UNCHANGED <<pools, calls, resps, ctxDone, closer, listening, timerPc,
                   currentTime, oldVars>>

\* the goroutine of forwardMessageAndGetResponse after an error or a nil
\* response: resps <- nil
T_SendNil(c, a, p) ==
    /\ tasks[c][a][p].pc = "send1"
    /\ Current(c, a) => Len(resps[c][a]) < NPools
    /\ resps' = Sent(c, a, "nil")
    /\ tasks' = [tasks EXCEPT ![c][a][p].pc = "send2"]
    /\ UNCHANGED <<pools, conns, calls, ctxDone, closer, listening, timerPc,
                   currentTime, panicked, oldVars>>

\* the goroutine of forwardMessageAndGetResponse, last statement:
\* resps <- r
T_SendResult(c, a, p) ==
    /\ tasks[c][a][p].pc = "send2"
    /\ Current(c, a) => Len(resps[c][a]) < NPools
    /\ resps' = Sent(c, a, tasks[c][a][p].r)
    /\ tasks' = [tasks EXCEPT ![c][a][p] = Ended(c, a, tasks[c][a][p].r)]
    /\ UNCHANGED <<pools, conns, calls, ctxDone, closer, listening, timerPc,
                   currentTime, panicked, oldVars>>

\* Server.timer, the case t := <-t.C of its select
TimerTick ==
    /\ timerPc = "run"
    /\ currentTime' = 1
    /\ UNCHANGED <<pools, conns, tasks, calls, resps, ctxDone, closer,
                   listening, timerPc, panicked, oldVars>>

\* Server.timer, the case <-ctx.Done() of its select
TimerReturn ==
    /\ timerPc = "run"
    /\ ctxDone
    /\ timerPc' = "returned"
    /\ UNCHANGED <<pools, conns, tasks, calls, resps, ctxDone, closer,
                   listening, currentTime, panicked, oldVars>>

\* the context given to RunWithHandle is canceled
Cancel ==
    /\ ~ctxDone
    /\ ctxDone' = TRUE
    /\ UNCHANGED <<pools, conns, tasks, calls, resps, closer, listening,
                   timerPc, currentTime, panicked, oldVars>>

\* the goroutine of RunWithHandle: <-ctx.Done()
C_Wake ==
    /\ closer.pc = "wait"
    /\ ctxDone
    /\ closer' = [closer EXCEPT !.pc = "servers"]
    /\ UNCHANGED <<pools, conns, tasks, calls, resps, ctxDone, listening,
                   timerPc, currentTime, panicked, oldVars>>

\* the goroutine of RunWithHandle: s.Shutdown() for the listener
C_Servers ==
    /\ closer.pc = "servers"
    /\ listening' = FALSE
    /\ closer' = [pc |-> "request", p |-> 1]
    /\ UNCHANGED <<pools, conns, tasks, calls, resps, ctxDone, timerPc,
                   currentTime, panicked, oldVars>>

\* the goroutine of RunWithHandle after the shutdown of pool p
AfterShutdown_return(p) == [pc |-> "done", p |-> p]
AfterShutdown(p) ==
    IF p < NPools THEN [pc |-> "request", p |-> p + 1]
    ELSE [pc |-> "done", p |-> p]

(***************************************************************************)
(* The pools, lock by lock: the goroutines of forwardMessageAndGetResponse *)
(* in pool.get and pool.put and the goroutine of RunWithHandle in          *)
(* pool.shutdown, every step one operation on the lock or on the channel   *)
(* of the pool.  The calls that start the goroutines are left out: a       *)
(* goroutine starts at any time.  The pools share nothing, and the         *)
(* goroutines looked at are those of the first pool.                       *)
(***************************************************************************)
\* a call of forwardMessageAndGetResponse starts its goroutine for pool p
P_Start(c, p) ==
    /\ tasks[c][0][p].pc = "none"
    /\ Cardinality(Running) < MaxTasks
    /\ tasks' = [tasks EXCEPT ![c][0][p] = NewTask]
    /\ UNCHANGED <<pools, conns, calls, resps, ctxDone, closer, listening,
                   timerPc, currentTime, panicked, oldVars>>

\* pool.get, first half: RLock, and the test of closed
P_GetBegin(c, a, p) ==
    /\ tasks[c][a][p].pc = "get"
    /\ CanRLock(pools[p])
    /\ IF pools[p].closed
       THEN /\ tasks' = [tasks EXCEPT ![c][a][p].pc = "send1"]
            /\ UNCHANGED pools
       ELSE /\ tasks' = [tasks EXCEPT ![c][a][p].pc = "take"]
            /\ pools' = [pools EXCEPT ![p].readers = @ + 1]
    /\ UNCHANGED <<conns, calls, resps, ctxDone, closer, listening, timerPc,
                   currentTime, panicked, oldVars>>

\* pool.get, second half: the select, and RUnlock
P_GetTake(c, a, p) ==
    /\ tasks[c][a][p].pc = "take"
    /\ \E g \in poolTake(pools[p], conns[p]) :
          /\ pools' = [pools EXCEPT ![p] = [g.pl EXCEPT !.readers = @ - 1]]
          /\ conns' = [conns EXCEPT ![p] = g.cs]
          /\ tasks' = [tasks EXCEPT
                          ![c][a][p].pc = IF g.err THEN "send1" ELSE "io",
                          ![c][a][p].conn = g.conn]
    /\ UNCHANGED <<calls, resps, ctxDone, closer, listening, timerPc,
                   currentTime, panicked, oldVars>>

\* pool.put, first half: RLock, and the test of closed
P_PutBegin(c, a, p) ==
    /\ tasks[c][a][p].pc = "put"
    /\ CanRLock(pools[p])
    /\ IF pools[p].closed
       THEN /\ tasks' = [tasks EXCEPT ![c][a][p].pc = "send2",
                                      ![c][a][p].conn = NoConn]
            /\ UNCHANGED pools
       ELSE /\ tasks' = [tasks EXCEPT ![c][a][p].pc = "give"]
            /\ pools' = [pools EXCEPT ![p].readers = @ + 1]
    /\ UNCHANGED <<conns, calls, resps, ctxDone, closer, listening, timerPc,
                   currentTime, panicked, oldVars>>

\* pool.put, second half: the select, and RUnlock
P_PutGive(c, a, p) ==
    /\ tasks[c][a][p].pc = "give"
    /\ \E g \in {poolGive(pools[p], conns[p], tasks[c][a][p].conn)} :
          /\ pools' = [pools EXCEPT ![p] = [g.pl EXCEPT !.readers = @ - 1]]
          /\ conns' = [conns EXCEPT ![p] = g.cs]
          /\ panicked' = (panicked \/ g.panic)
    /\ tasks' = [tasks EXCEPT ![c][a][p].pc = "send2",
                              ![c][a][p].conn = NoConn]
    /\ UNCHANGED <<calls, resps, ctxDone, closer, listening, timerPc,
                   currentTime, oldVars>>

\* pool.shutdown: p.mu.Lock() is called, and from now on RLock waits
C_LockRequest ==
    /\ closer.pc = "request"
    /\ pools' = [pools EXCEPT ![closer.p].waiting = TRUE]
    /\ closer' = [closer EXCEPT !.pc = "lock"]
    /\ UNCHANGED <<conns, tasks, calls, resps, ctxDone, listening, timerPc,
                   currentTime, panicked, oldVars>>

\* pool.shutdown: p.mu.Lock() returns; p.closed = true
C_Lock ==
    /\ closer.pc = "lock"
    /\ CanLock(pools[closer.p])
    /\ pools' = [pools EXCEPT ![closer.p].waiting = FALSE,
                              ![closer.p].writer = TRUE,
                              ![closer.p].closed = TRUE]
    /\ closer' = [closer EXCEPT !.pc = "close"]
    /\ UNCHANGED <<conns, tasks, calls, resps, ctxDone, listening, timerPc,
                   currentTime, panicked, oldVars>>

\* pool.shutdown: close(p.buf); closing a closed channel panics
C_Close ==
    /\ closer.pc = "close"
    /\ pools' = [pools EXCEPT ![closer.p].chClosed = TRUE]
    /\ panicked' = (panicked \/ pools[closer.p].chClosed)
    /\ closer' = [closer EXCEPT !.pc = "drain"]
    /\ UNCHANGED <<conns, tasks, calls, resps, ctxDone, listening, timerPc,
                   currentTime, oldVars>>

\* pool.shutdown: the buffer is drained; Unlock; and the goroutine of
\* RunWithHandle goes to the next pool
C_Drain ==
    /\ closer.pc = "drain"
    /\ \E g \in {poolDrain(pools[closer.p], conns[closer.p])} :
          /\ pools' = [pools EXCEPT ![closer.p] =
                          [g.pl EXCEPT !.writer = FALSE,
                                       !.shutdowns = @ + 1]]
          /\ conns' = [conns EXCEPT ![closer.p] = g.cs]
    /\ closer' = AfterShutdown(closer.p)
    /\ UNCHANGED <<tasks, calls, resps, ctxDone, listening, timerPc,
                   currentTime, panicked, oldVars>>

NextPool ==
    \/ \E c \in Callers : P_Start(c, 1)
    \/ \E c \in Callers : \E p \in Pools : P_GetBegin(c, 0, p)
    \/ \E c \in Callers : \E p \in Pools : P_GetTake(c, 0, p)
    \/ \E c \in Callers : \E p \in Pools : T_Exchange(c, 0, p)
    \/ \E c \in Callers : \E p \in Pools : P_PutBegin(c, 0, p)
    \/ \E c \in Callers : \E p \in Pools : P_PutGive(c, 0, p)
    \/ \E c \in Callers : \E p \in Pools : T_SendNil(c, 0, p)
    \/ \E c \in Callers : \E p \in Pools : T_SendResult(c, 0, p)
    \/ TimerTick
    \/ TimerReturn
    \/ Cancel
    \/ C_Wake
    \/ C_Servers
    \/ C_LockRequest
    \/ C_Lock
    \/ C_Close
    \/ C_Drain

SpecPool == InitNet /\ [][NextPool]_vars

(***************************************************************************)
(* The server of package server: its pool has no lock and no closed flag,  *)
(* and exchangeMessages starts a goroutine that waits for the context of   *)
(* its call of forwardMessageAndGetResponse and then sets the deadline of  *)
(* the connection to time.Now().  The context is done when the call has    *)
(* returned (defer cancel()) or when its deadline has passed; the          *)
(* goroutines of a call start at any time, as above.                       *)
(***************************************************************************)
\* the connections that a goroutine started by exchangeMessages waits with
\* for its context
Helpers ==
    {x \in Pools \X ConnIds \X BOOLEAN :
        IF x[3] THEN conns[x[1]][x[2]].helper ELSE conns[x[1]][x[2]].stale}

\* connection cn goes back to the pool: the goroutine that was started for
\* it waits on
Released(cn) ==
    IF cn.st = "open"
    THEN [cn EXCEPT !.helper = FALSE, !.stale = cn.stale \/ cn.helper]
    ELSE cn

\* a call of forwardMessageAndGetResponse starts its goroutine for pool p
O_Start(c, p) ==
    /\ Cardinality(Running) + Cardinality(Helpers) < MaxTasks
    /\ P_Start(c, p)

\* pool.get: the select
O_Get(c, a, p) ==
    /\ tasks[c][a][p].pc = "get"
    /\ \E g \in poolTake(pools[p], conns[p]) :
          /\ pools' = [pools EXCEPT ![p] = g.pl]
          /\ conns' = [conns EXCEPT ![p] = g.cs]
          /\ tasks' = [tasks EXCEPT
                          ![c][a][p].pc = IF g.err THEN "send1" ELSE "io",
                          ![c][a][p].conn = g.conn]
    /\ UNCHANGED <<calls, resps, ctxDone, closer, listening, timerPc,
                   currentTime, panicked, oldVars>>

\* exchangeMessages after pool.get: a nil connection is dereferenced; or
\* c.SetDeadline(time.Now().Add(connectionTimeout)) and the goroutine that
\* waits for the context is started
O_SetDeadline(c, a, p) ==
    /\ tasks[c][a][p].pc = "io"
    /\ IF tasks[c][a][p].conn = NoConn
       THEN /\ panicked' = TRUE
            /\ tasks' = [tasks EXCEPT ![c][a][p] = NoTask]
            /\ UNCHANGED conns
       ELSE /\ conns' = [conns EXCEPT
                            ![p][tasks[c][a][p].conn].dl = "future",
                            ![p][tasks[c][a][p].conn].helper = TRUE]
            /\ tasks' = [tasks EXCEPT ![c][a][p].pc = "xchg"]
            /\ UNCHANGED panicked
    /\ UNCHANGED <<pools, calls, resps, ctxDone, closer, listening, timerPc,
                   currentTime, oldVars>>

\* exchangeMessages: WriteMsg and ReadMsg, which fail once the deadline is
\* time.Now(); and the first half of the deferred function: c.Close() on
\* an error or a nil response
O_Exchange(c, a, p) ==
    /\ tasks[c][a][p].pc = "xchg"
    /\ \E k \in Exchanges(conns[p][tasks[c][a][p].conn].dl) :
          IF k = "nil"
          THEN /\ conns' = [conns EXCEPT ![p][tasks[c][a][p].conn] =
                               connClose(@)]
               /\ tasks' = [tasks EXCEPT ![c][a][p] =
                               [pc |-> "send1", conn |-> NoConn, r |-> "nil"]]
          ELSE /\ tasks' = [tasks EXCEPT ![c][a][p].pc = "put",
                                         ![c][a][p].r = k]
               /\ UNCHANGED conns
    /\ UNCHANGED <<pools, calls, resps, ctxDone, closer, listening, timerPc,
                   currentTime, panicked, oldVars>>

\* pool.put: the select
O_Put(c, a, p) ==
    /\ tasks[c][a][p].pc = "put"
    /\ \E g \in {poolGive(pools[p], conns[p], tasks[c][a][p].conn)} :
          /\ pools' = [pools EXCEPT ![p] = g.pl]
          /\ conns' = [conns EXCEPT ![p] =
                          [g.cs EXCEPT ![tasks[c][a][p].conn] = Released(@)]]
          /\ panicked' = (panicked \/ g.panic)
    /\ tasks' = [tasks EXCEPT ![c][a][p].pc = "send2",
                              ![c][a][p].conn = NoConn]
    /\ UNCHANGED <<calls, resps, ctxDone, closer, listening, timerPc,
                   currentTime, oldVars>>

\* the goroutine started by exchangeMessages for connection i of pool p,
\* by the goroutine that holds the connection (own) or by an earlier one:
\* <-ctx.Done(); c.SetDeadline(time.Now())
O_Helper(p, i, own) ==
    /\ <<p, i, own>> \in Helpers
    /\ conns' = [conns EXCEPT
                    ![p][i] = IF own THEN [@ EXCEPT !.helper = FALSE,
                                                   !.dl = "past"]
                              ELSE [@ EXCEPT !.stale = FALSE, !.dl = "past"]]
    /\ UNCHANGED <<pools, tasks, calls, resps, ctxDone, closer, listening,
                   timerPc, currentTime, panicked, oldVars>>

\* pool.shutdown: close(p.buf)
O_Close ==
    /\ closer.pc = "request"
    /\ pools' = [pools EXCEPT ![closer.p].chClosed = TRUE]
    /\ panicked' = (panicked \/ pools[closer.p].chClosed)
    /\ closer' = [closer EXCEPT !.pc = "drain"]
    /\ UNCHANGED <<conns, tasks, calls, resps, ctxDone, listening, timerPc,
                   currentTime, oldVars>>

\* pool.shutdown: one turn of for c := range p.buf { c.Close() }, or its
\* end, after which the goroutine of Run goes to the next pool
O_Drain ==
    /\ closer.pc = "drain"
    /\ IF pools[closer.p].buf # <<>>
       THEN /\ pools' = [pools EXCEPT ![closer.p].buf = Tail(@)]
            /\ conns' = [conns EXCEPT
                            ![closer.p][Head(pools[closer.p].buf)] =
                                connClose(@)]
            /\ UNCHANGED closer
       ELSE /\ pools' = [pools EXCEPT ![closer.p].shutdowns = @ + 1]
            /\ closer' = AfterShutdown(closer.p)
            /\ UNCHANGED conns
    /\ UNCHANGED <<tasks, calls, resps, ctxDone, listening, timerPc,
                   currentTime, panicked, oldVars>>

NextOld ==
    \/ \E c \in Callers : O_Start(c, 1)
    \/ \E c \in Callers : \E p \in Pools : O_Get(c, 0, p)
    \/ \E c \in Callers : \E p \in Pools : O_SetDeadline(c, 0, p)
    \/ \E c \in Callers : \E p \in Pools : O_Exchange(c, 0, p)
    \/ \E c \in Callers : \E p \in Pools : O_Put(c, 0, p)
    \/ \E c \in Callers : \E p \in Pools : T_SendNil(c, 0, p)
    \/ \E c \in Callers : \E p \in Pools : T_SendResult(c, 0, p)
    \/ \E p \in Pools : \E i \in ConnIds : \E own \in BOOLEAN :
          O_Helper(p, i, own)
    \/ Cancel
    \/ C_Wake
    \/ C_Servers
    \/ O_Close
    \/ O_Drain

SpecOld == InitNet /\ [][NextOld]_vars

(***************************************************************************)
(* The server, call by call.  An exchange with an upstream and             *)
(* pool.shutdown are one step each here: the steps of the pools are those  *)
(* above.                                                                  *)
(***************************************************************************)
\* the goroutine of call a of caller c after exchangeMessages, about to
\* send r.  If the call has returned nothing receives what it sends, and
\* the goroutine is forgotten.
Sending(c, a, pc, r) ==
    IF Current(c, a) THEN [pc |-> pc, conn |-> NoConn, r |-> r] ELSE NoTask

\* exchangeMessages for pool p: pool.get; SetDeadline, WriteMsg and
\* ReadMsg on the connection; Close on an error or a nil response, and the
\* deferred pool.put if there is none
T_Resolve(c, a, p) ==
    /\ tasks[c][a][p].pc = "get"
    /\ CanRLock(pools[p])
    /\ IF pools[p].closed
       THEN /\ tasks' = [tasks EXCEPT ![c][a][p] =
                               Sending(c, a, "send1", "nil")]
            /\ UNCHANGED <<pools, conns, panicked>>
       ELSE \E g \in poolTake(pools[p], conns[p]) :
               IF g.err
               THEN /\ tasks' = [tasks EXCEPT ![c][a][p] =
                               Sending(c, a, "send1", "nil")]
                    /\ UNCHANGED <<pools, conns, panicked>>
               ELSE \E dl \in Deadlines : \E k \in Exchanges(dl) :
                       IF k = "nil"
                       THEN /\ pools' = [pools EXCEPT ![p] = g.pl]
                            /\ conns' = [conns EXCEPT ![p] =
                                   [g.cs EXCEPT ![g.conn] = connClose(@)]]
                            /\ tasks' = [tasks EXCEPT ![c][a][p] =
                               Sending(c, a, "send1", "nil")]
                            /\ UNCHANGED panicked
                       ELSE \E h \in {poolGive(g.pl,
                                         [g.cs EXCEPT ![g.conn].dl = dl],
                                         g.conn)} :
                               /\ pools' = [pools EXCEPT ![p] = h.pl]
                               /\ conns' = [conns EXCEPT ![p] = h.cs]
                               /\ panicked' = (panicked \/ h.panic)
                               /\ tasks' = [tasks EXCEPT ![c][a][p] =
                                               Sending(c, a, "send2", k)]
    /\ UNCHANGED <<calls, resps, ctxDone, closer, listening, timerPc,
                   currentTime, oldVars>>

\* pool.shutdown, and the goroutine of RunWithHandle goes to the next pool
C_Shutdown ==
    /\ closer.pc = "request"
    /\ CanLock(pools[closer.p])
    /\ \E g \in {poolDrain(pools[closer.p], conns[closer.p])} :
          /\ pools' = [pools EXCEPT ![closer.p] =
                          [g.pl EXCEPT !.closed = TRUE, !.chClosed = TRUE,
                                       !.shutdowns = @ + 1]]
          /\ conns' = [conns EXCEPT ![closer.p] = g.cs]
    /\ panicked' = (panicked \/ pools[closer.p].chClosed)
    /\ closer' = AfterShutdown(closer.p)
    /\ UNCHANGED <<tasks, calls, resps, ctxDone, listening, timerPc,
                   currentTime, oldVars>>

\* the goroutines of calls that have returned and that have not ended
Lingering == {t \in Running : ~Current(t[1], t[2])}

\* forwardMessageAndGetResponse starts: the channel is made and one
\* goroutine per pool is started
Spawned(tk, c, a) == [tk EXCEPT ![c][a] = [p \in Pools |-> NewTask]]

\* forwardMessageAndGetResponse returns from call a of caller c: its
\* goroutines that have ended, or that have nothing left to do but to send
\* on the channel that nothing receives from any more, are forgotten
Returned(tk, c, a) ==
    [tk EXCEPT ![c][a] = [p \in Pools |->
                            IF tk[c][a][p].pc = "get" THEN tk[c][a][p]
                            ELSE NoTask]]

\* call a of caller c can start: no goroutine is left in its place, and no
\* more than MaxLinger goroutines of returned calls go on
SlotFree(c, a) ==
    /\ \A p \in Pools : tasks[c][a][p].pc = "none"
    /\ Cardinality(Lingering) <= MaxLinger

\* forwardMessageAndCacheResponse returns to caller c: the handler writes
\* its reply, the refresher goes back to its select
Finished(c, reply) ==
    [calls[c] EXCEPT !.pc = "idle", !.reply = reply, !.served = @ + 1]

\* caller c starts forwardMessageAndCacheResponse(q)
Started(c, q) ==
    [calls[c] EXCEPT !.pc = "recv", !.q = q, !.a = 0, !.n = 0,
                     !.reply = "none", !.nils = {}]

\* the queries the listener hands to the handler: the clients ask one
\* question
NetQueries == {Query(1, 1)}

\* ServeDNS for query q up to the first receive from resps: GetAnswer,
\* cache.get, and on a miss the first call of
\* forwardMessageAndGetResponse, which starts its goroutines
Serve(q) ==
    /\ listening
    /\ calls["serve"].pc = "idle"
    /\ calls["serve"].served < MaxServe
    /\ \E g \in {cacheGet(cache, wall, q)} :
          /\ cache' = g.c
          /\ IF g.ok
             THEN /\ calls' = [calls EXCEPT !["serve"] =
                                  [Finished("serve", "fresh") EXCEPT !.q = q]]
                  /\ UNCHANGED <<rq, tasks, resps>>
             ELSE IF g.m # NilMsg
             THEN /\ rq' = refresh(rq, q)
                  /\ calls' = [calls EXCEPT !["serve"] =
                                  [Finished("serve", "stale") EXCEPT !.q = q]]
                  /\ UNCHANGED <<tasks, resps>>
             ELSE /\ SlotFree("serve", 0)
                  /\ calls' = [calls EXCEPT !["serve"] = Started("serve", q)]
                  /\ tasks' = Spawned(tasks, "serve", 0)
                  /\ resps' = [resps EXCEPT !["serve"][0] = <<>>]
                  /\ UNCHANGED rq
    /\ UNCHANGED <<pools, conns, ctxDone, closer, listening, timerPc,
                   currentTime, panicked, fixedVars, wall>>

\* one receive of the loop of forwardMessageAndGetResponse, for call a of
\* caller c, with what follows it: the call returns an acceptable response,
\* which forwardMessageAndCacheResponse puts into the cache and returns; or
\* it goes on to the next receive; or it returns nothing after len(s.pools)
\* receives, and forwardMessageAndCacheResponse goes on to the next call
\* or gives up
RecvAt(c, a, r) ==
    IF r = "ok"
    THEN /\ cache' = cachePut(cache, wall, calls[c].q, MsgOf(calls[c].q, r))
         /\ calls' = [calls EXCEPT ![c] = Finished(c, "answer")]
         /\ resps' = [resps EXCEPT ![c][a] = <<>>]
         /\ tasks' = Returned(tasks, c, a)
    ELSE IF calls[c].n + 1 < NPools
    THEN /\ calls' = [calls EXCEPT ![c].n = @ + 1]
         /\ resps' = [resps EXCEPT ![c][a] = Tail(@)]
         /\ UNCHANGED <<cache, tasks>>
    ELSE IF a < connectionsPerUpstream
    THEN /\ calls' = [calls EXCEPT ![c].pc = "retry", ![c].nils = @ \cup {a}]
         /\ resps' = [resps EXCEPT ![c][a] = <<>>]
         /\ tasks' = Returned(tasks, c, a)
         /\ UNCHANGED cache
    ELSE /\ calls' = [calls EXCEPT ![c] =
                         [Finished(c, "servfail") EXCEPT !.nils = @ \cup {a}]]
         /\ resps' = [resps EXCEPT ![c][a] = <<>>]
         /\ tasks' = Returned(tasks, c, a)
         /\ UNCHANGED cache

Recv(c) ==
    /\ calls[c].pc = "recv"
    /\ resps[c][calls[c].a] # <<>>
    /\ RecvAt(c, calls[c].a, Head(resps[c][calls[c].a]))
    /\ UNCHANGED <<pools, conns, ctxDone, closer, listening, timerPc,
                   currentTime, panicked, fixedVars, wall, rq>>

\* the loop of forwardMessageAndCacheResponse: the next call of
\* forwardMessageAndGetResponse, which starts its goroutines
Retry(c) ==
    /\ calls[c].pc = "retry"
    /\ SlotFree(c, calls[c].a + 1)
    /\ calls' = [calls EXCEPT ![c].pc = "recv", ![c].a = @ + 1, ![c].n = 0]
    /\ tasks' = Spawned(tasks, c, calls[c].a + 1)
    /\ resps' = [resps EXCEPT ![c][calls[c].a + 1] = <<>>]
    /\ UNCHANGED <<pools, conns, ctxDone, closer, listening, timerPc,
                   currentTime, panicked, oldVars>>

\* Server.refresher, the case q := <-s.rq of its select:
\* forwardMessageAndCacheResponse(q) up to the first receive
R_Take ==
    /\ calls["refresh"].pc = "idle"
    /\ rq # <<>>
    /\ SlotFree("refresh", 0)
    /\ rq' = Tail(rq)
    /\ calls' = [calls EXCEPT !["refresh"] = Started("refresh", Head(rq))]
    /\ tasks' = Spawned(tasks, "refresh", 0)
    /\ resps' = [resps EXCEPT !["refresh"][0] = <<>>]
    /\ UNCHANGED <<pools, conns, ctxDone, closer, listening, timerPc,
                   currentTime, panicked, fixedVars, wall, cache>>

\* Server.refresher, the case <-ctx.Done() of its select
R_Return ==
    /\ calls["refresh"].pc = "idle"
    /\ ctxDone
    /\ calls' = [calls EXCEPT !["refresh"].pc = "returned"]
    /\ UNCHANGED <<pools, conns, tasks, resps, ctxDone, closer, listening,
                   timerPc, currentTime, panicked, oldVars>>

\* the wall clock goes past the expiry of what the cache holds
Pass ==
    /\ wall.s < 0
    /\ calls["serve"].pc = "idle"
    /\ wall' = [wall EXCEPT !.s = @ + minTTL + 1]
    /\ UNCHANGED <<pools, conns, tasks, calls, resps, ctxDone, closer,
                   listening, timerPc, currentTime, panicked, fixedVars,
                   cache, rq>>

NextNet ==
    \/ \E c \in Callers : \E a \in Attempts : \E p \in Pools :
          T_Resolve(c, a, p)
    \/ \E c \in Callers : \E a \in Attempts : \E p \in Pools :
          T_SendNil(c, a, p)
    \/ \E c \in Callers : \E a \in Attempts : \E p \in Pools :
          T_SendResult(c, a, p)
    \/ \E q \in NetQueries : Serve(q)
    \/ \E c \in Callers : Recv(c)
    \/ \E c \in Callers : Retry(c)
    \/ R_Take
    \/ R_Return
    \/ TimerTick
    \/ TimerReturn
    \/ Cancel
    \/ Pass
    \/ C_Wake
    \/ C_Servers
    \/ C_Shutdown

SpecNet == InitNet /\ [][NextNet]_vars

(***************************************************************************)
(* Properties of the dual-store cache, checked under SpecCache.            *)
(***************************************************************************)
IsCache == cache # NilCache

\* the keys a Get would hit now
Retrievable == {k \in Keys : Get(cache, k).ok}

\* the keys put so far
PutKeys == DOMAIN exp

StoreKeys(s) == {s.pq[i].key : i \in DOMAIN s.pq}

\* C1: starting from an empty cache of capacity N >= 2, after any sequence
\* of Put and Get the number of retrievable keys is min(number of distinct
\* keys put so far, N), and only keys that were put are retrievable: no key
\* is lost before N distinct keys were put, and with N+1 distinct keys put
\* exactly one of them is not retrievable.
C1_RetrievableCount ==
    IsCache =>
        /\ Retrievable \subseteq PutKeys
        /\ Cardinality(Retrievable)
             = Min(Cardinality(PutKeys), cache.capacity)
        /\ Cardinality(PutKeys) = cache.capacity + 1
             => Cardinality(PutKeys \ Retrievable) = 1

\* C1 witness: N+1 distinct keys were put and exactly one is not retrievable
C1_Witness ==
    /\ IsCache
    /\ Cardinality(PutKeys) = cache.capacity + 1
    /\ Cardinality(PutKeys \ Retrievable) = 1

C3_FreshPutGettable ==
    (IsCache /\ last.op = "put") =>
        /\ Get(cache, last.k).ok
        /\ Get(cache, last.k).v = last.v

\* C4: a Get that hits returns the value of the most recent Put of that
\* key, and no Get hits for a key that was never put; the same holds of
\* every item either store holds.
C4_GetReturnsLastPut ==
    /\ (last.op = "get" /\ last.ok) =>
          /\ last.k \in PutKeys
          /\ last.v = exp[last.k]
    /\ IsCache =>
          \A k \in Keys :
              Get(cache, k).ok =>
                  /\ k \in PutKeys
                  /\ Get(cache, k).v = exp[k]

\* C4 witness: the fourth operation, a Get, hits key 1 in MFA and returns
\* what the third operation put: key 1 was put, promoted, and put again
C4_Witness ==
    /\ IsCache
    /\ last.op = "get"
    /\ last.ok
    /\ Has(cache.mfa, last.k)
    /\ nops = 4
    /\ last.k = 1
    /\ last.v = StrVal(3)

\* C5: each key is present in at most one of the two stores.
C5_OneStorePerKey ==
    IsCache =>
        /\ StoreKeys(cache.lru) \cap StoreKeys(cache.mfa) = {}
        /\ (DOMAIN cache.lru.m) \cap (DOMAIN cache.mfa.m) = {}

\* C5 witness: the last Put promoted one key to MFA and demoted another to
\* LRU (both carry the time of that Put; the demoted one is not the new key)
C5_Witness ==
    /\ IsCache
    /\ last.op = "put"
    /\ \E i \in DOMAIN cache.mfa.pq :
          /\ cache.mfa.pq[i].t = cache.t
          /\ cache.mfa.pq[i].key # last.k
    /\ \E i \in DOMAIN cache.lru.pq :
          /\ cache.lru.pq[i].t = cache.t
          /\ cache.lru.pq[i].key # last.k

\* C6: HitMFA + HitLRU + Miss is the number of Get calls, Hit() is the
\* number of Gets that returned ok = true and Miss the number that returned
\* ok = false.
C6_MetricIdentity ==
    IsCache =>
        /\ Metrics(cache).HitMFA + Metrics(cache).HitLRU + Metrics(cache).Miss
             = hits + misses
        /\ Hit(Metrics(cache)) = hits
        /\ Metrics(cache).Miss = misses
        /\ Tot(Metrics(cache)) = hits + misses

\* C6 witness: Gets hit in MFA, hit in LRU and missed
C6_Witness ==
    /\ IsCache
    /\ Metrics(cache).HitMFA > 0
    /\ Metrics(cache).HitLRU > 0
    /\ Metrics(cache).Miss > 0

(***************************************************************************)
(* Properties of the DNS wrapper and the server, checked under SpecServer. *)
(***************************************************************************)
\* what the cache holds: each key with its value (message and expiry)
Contents(cc) ==
    IF cc = NilCache THEN {}
    ELSE {<<cc.lru.pq[i].key, cc.lru.pq[i].v>> : i \in DOMAIN cc.lru.pq}
         \cup {<<cc.mfa.pq[i].key, cc.mfa.pq[i].v>> : i \in DOMAIN cc.mfa.pq}

\* the expiry of every stored entry
Expiries(cc) == {<<e[1], e[2].exp>> : e \in Contents(cc)}

\* every response an upstream may send to a query of the model
Responses == {Response(q, rep) : q \in Queries, rep \in Replies}

\* C7: NewCache with size 1 is rejected with an error; NewCache with size
\* <= 0 gives a cache that does nothing: every Get misses, every Put stores
\* nothing, Len() and Cap() are 0 and the metrics stay zero; a server built
\* with a negative cache size contacts upstream for every query.
C7_ConstructionEdgeCases ==
    /\ \A sz \in Sizes \cup ServerSizes :
          /\ sz = 1 => NewCache(sz, TRUE).err /\ NewCache(sz, FALSE).err
          /\ sz <= 0 => /\ ~NewCache(sz, TRUE).err
                        /\ NewCache(sz, TRUE).c = NilCache
                        /\ NewCache(sz, FALSE) = NewCache(sz, TRUE)
    /\ newSize = 1 => newErr /\ nops = 0
    /\ newSize <= 0 =>
          /\ ~newErr
          /\ cache = NilCache
          /\ CacheLen(cache) = 0
          /\ CacheCap(cache) = 0
          /\ Metrics(cache) = ZeroMetrics
          /\ \A q \in Queries :
                /\ ~Get(cache, key(q)).ok
                /\ Get(cache, key(q)).c = cache
                /\ cacheGet(cache, wall, q).m = NilMsg
                /\ ~cacheGet(cache, wall, q).ok
                /\ \A r \in Responses :
                      /\ Put(cache, key(q), cacheValue(r, wall)) = cache
                      /\ cachePut(cache, wall, q, r) = cache
          /\ last.op = "answer" => last.from = "upstream" /\ last.calls >= 1

\* C7 witness: a server with no cache answers a name from upstream a second
\* time, after a first answer for that name was handed to put
C7_Witness ==
    /\ newSize <= 0
    /\ nops = 2
    /\ last.op = "answer"
    /\ last.from = "upstream"
    /\ last.m # NilMsg
    /\ last.m.Rcode = RcodeNameError
    /\ key(last.q) \in DOMAIN lastPut

\* the last step was a resolve that failed or that got a response whose
\* rcode is not NOERROR
FailedResolve(l) ==
    /\ l.from = "upstream"
    /\ (l.m = NilMsg \/ l.m.Rcode # RcodeSuccess)

\* C8: a resolve that ends in failure (every forward attempt returns
\* nothing) and a put of an upstream response whose rcode is not NOERROR
\* leave the contents of the cache, Len() and every stored expiry unchanged.
C8_ErrorsNeverPoison ==
    [][/\ FailedResolve(last') =>
              /\ Contents(cache') = Contents(cache)
              /\ CacheLen(cache') = CacheLen(cache)
              /\ Expiries(cache') = Expiries(cache)
       /\ \A q \in Queries : \A rep \in Replies :
              rep.rcode # RcodeSuccess =>
                  /\ cachePut(cache, wall, q, Response(q, rep)) = cache
                  /\ Stored(lastPut, q, Response(q, rep)) = lastPut]_vars

\* C8 witness: the refresh of a soft-expired entry failed after every
\* attempt, and the entry is still stored
C8_Witness ==
    /\ last.op = "refresh"
    /\ last.m = NilMsg
    /\ last.calls = connectionsPerUpstream + 1
    /\ \E e \in Contents(cache) : e[1] = key(last.q)

\* m is r but for the ID and the TTLs of the answers
EqualButIdAndTtl(m, r) ==
    /\ m.Rcode = r.Rcode
    /\ m.Truncated = r.Truncated
    /\ m.Compress = r.Compress
    /\ m.Question = r.Question
    /\ Len(m.Answer) = Len(r.Answer)
    /\ \A i \in DOMAIN m.Answer : m.Answer[i].Data = r.Answer[i].Data

\* m is r but for the ID, the TTLs of the answers and the two flags put
\* sets: Truncated off and Compress on
EqualButIdTtlAndFlags(m, r) ==
    /\ m.Rcode = r.Rcode
    /\ m.Truncated = FALSE
    /\ m.Compress = TRUE
    /\ m.Question = r.Question
    /\ Len(m.Answer) = Len(r.Answer)
    /\ \A i \in DOMAIN m.Answer : m.Answer[i].Data = r.Answer[i].Data

Entry(q) == Get(cache, key(q)).v

\* n is the whole number of seconds from t to e: floor(e - t)
IsFloor(n, e, t) ==
    /\ ~Before(e, TimeAdd(t, n))
    /\ Before(e, TimeAdd(t, n + 1))

\* what C10 says of the result g of a get at time t on the entry v
GetTtlOf(g, v, t) ==
    /\ g.m # NilMsg
    /\ Len(g.m.Answer) = Len(v.m.Answer)
    /\ IF Before(v.exp, t)
       THEN /\ ~g.ok
            /\ \A i \in DOMAIN g.m.Answer : g.m.Answer[i].Ttl = staleTTL
       ELSE /\ g.ok
            /\ \A i \in DOMAIN g.m.Answer :
                  LET ttl == g.m.Answer[i].Ttl
                  IN /\ ttl >= minTTL
                     /\ ttl <= maxTTL
                     /\ ttl > minTTL => IsFloor(ttl, v.exp, t)
                     /\ ttl = minTTL =>
                           Before(v.exp, TimeAdd(t, minTTL + 1))

\* C10: get at time now on a stored entry with expiry exp: if exp < now it
\* returns the value with every answer TTL 60 and hit = false; otherwise it
\* returns hit = true with every answer TTL equal to floor(exp - now)
\* clamped to [minTTL, maxTTL].
C10_GetTtl ==
    \A name \in Names :
        LET r == Get(cache, key(Query(1, name)))
        IN r.ok =>
              \A id \in Ids :
                  GetTtlOf(cacheGet(cache, wall, Query(id, name)), r.v, wall)

\* C10 witness: 301.5 seconds after two responses were stored, the entry
\* that had 900 seconds to live is read with TTL 598 and hit = true, and the
\* entry that had 300 is read with TTL 60 and hit = false
C10_Witness ==
    /\ wall.h = 1
    /\ \E qa \in Queries :
          /\ Get(cache, key(qa)).ok
          /\ cacheGet(cache, wall, qa).ok
          /\ Len(cacheGet(cache, wall, qa).m.Answer) = 2
          /\ cacheGet(cache, wall, qa).m.Answer[1].Ttl = 598
          /\ cacheGet(cache, wall, qa).m.Answer[2].Ttl = 598
    /\ \E qb \in Queries :
          /\ Get(cache, key(qb)).ok
          /\ Before(Entry(qb).exp, wall)
          /\ ~cacheGet(cache, wall, qb).ok
          /\ Len(cacheGet(cache, wall, qb).m.Answer) = 1
          /\ cacheGet(cache, wall, qb).m.Answer[1].Ttl = staleTTL

\* query q finds an entry that is not expired: the entry is stored and its
\* expiry is not before the clock
FindsFresh(q) ==
    /\ Get(cache, key(q)).ok
    /\ ~Before(Get(cache, key(q)).v.exp, wall)

\* query q finds an entry that is soft-expired
FindsStale(q) ==
    /\ Get(cache, key(q)).ok
    /\ Before(Get(cache, key(q)).v.exp, wall)

\* the step is a GetAnswer
AnswerStep == last'.op = "answer" /\ nops' = nops + 1

\* C11: a client query that finds a fresh cache entry is answered without
\* upstream contact: no forward is made for it (so no pool.get and no dial,
\* which only forward makes), nothing is put and no refresh is enqueued.
C11_FreshHitNoUpstream ==
    [][(AnswerStep /\ FindsFresh(last'.q)) =>
          /\ last'.from = "fresh"
          /\ last'.calls = 0
          /\ last'.m # NilMsg
          /\ rq' = rq
          /\ lastPut' = lastPut
          /\ Contents(cache') = Contents(cache)]_vars

\* C11 witness: a query of another client (another id) was answered from a
\* fresh entry that an earlier miss stored
C11_Witness ==
    /\ last.op = "answer"
    /\ last.from = "fresh"
    /\ last.calls = 0
    /\ key(last.q) \in DOMAIN lastPut
    /\ lastPut[key(last.q)].Id # last.q.Id
    /\ rq = <<>>

\* C13: a client query that hits a soft-expired entry returns the stale
\* response at once, without a forward; its query is appended to the
\* refresh queue if and only if the queue holds fewer than its capacity,
\* and is dropped otherwise; the queue never holds more than its capacity.
C13_StaleHitNeverBlocks ==
    [][/\ (AnswerStep /\ FindsStale(last'.q)) =>
              /\ last'.from = "stale"
              /\ last'.calls = 0
              /\ last'.m # NilMsg
              /\ last'.m.Id = last'.q.Id
              /\ lastPut' = lastPut
              /\ Len(rq) < rqSize => rq' = Append(rq, last'.q)
              /\ Len(rq) >= rqSize => rq' = rq
       /\ Len(rq) <= rqSize
       /\ Len(rq') <= rqSize]_vars

\* C13 witness: a stale answer was given while the refresh queue was full
\* of an earlier query, and the refresh was dropped
C13_Witness ==
    /\ last.op = "answer"
    /\ last.from = "stale"
    /\ Len(rq) = rqSize
    /\ rq[Len(rq)].Id # last.q.Id

\* C14: for one query that misses, forward is called at most
\* connectionsPerUpstream + 1 times; a further call is made only if all
\* calls before it returned nothing; the first result that is not nothing
\* is put into the cache and returned.
C14_RetryBound ==
    last.from = "upstream" =>
        /\ last.calls >= 1
        /\ last.calls <= connectionsPerUpstream + 1
        /\ last.calls = Min(last.nfail, connectionsPerUpstream) + 1
        /\ last.m = NilMsg <=> last.nfail > connectionsPerUpstream
        /\ last.m # NilMsg =>
              /\ last.m.Id = last.q.Id
              /\ last.m.Question = last.q.Question
              /\ last.m.Rcode = RcodeSuccess =>
                    /\ key(last.q) \in DOMAIN lastPut
                    /\ lastPut[key(last.q)] = last.m
                    /\ \A e \in Contents(cache) :
                          e[1] = key(last.q) =>
                              e[2] = cacheValue(last.m, wall)

\* C14 witness: the last of connectionsPerUpstream + 1 calls of forward
\* gave a response, which was stored
C14_Witness ==
    /\ last.from = "upstream"
    /\ last.calls = connectionsPerUpstream + 1
    /\ last.nfail = connectionsPerUpstream
    /\ last.m # NilMsg
    /\ \E e \in Contents(cache) :
          e[1] = key(last.q) /\ e[2] = cacheValue(last.m, wall)

\* the keys the two stores of a cache hold
CacheKeys(cc) == StoreKeys(cc.lru) \cup StoreKeys(cc.mfa)

\* Put(k) on c1 (the cache after the clock is read) takes the promotion
\* path with a full MFA: k is new, LRU is full and gives up an item
FullPromotion(c1, k) ==
    /\ k \notin CacheKeys(c1)
    /\ StoreLen(c1.lru) = StoreCap(c1.lru)
    /\ StoreLen(c1.mfa) = StoreCap(c1.mfa)
    /\ storePut(c1.lru, c1.t, k, StrVal(0), 1).evicted.v # Nil

\* the item LRU gives up for the new key k
LruOverflow(c1, k) == storePut(c1.lru, c1.t, k, StrVal(0), 1).evicted

\* E is gone from the cache c2 and is the eviction recorded last
Dropped(c1, c2, E) ==
    /\ E.key \notin CacheKeys(c2)
    /\ c2.m = evict(c1.m, E.key)

\* E is in the MFA of c2 and M is not
Displaced(c2, E, M) ==
    /\ E.key \in StoreKeys(c2.mfa)
    /\ M.key \notin StoreKeys(c2.mfa)

\* the promotion rule as the claim states it, for E the item LRU gave up
\* and M the minimum of MFA
PromotionAsStated(c1, c2, E, M) ==
    IF M.a > E.a \/ (M.a = E.a /\ M.t > E.t)
    THEN Dropped(c1, c2, E)
    ELSE Displaced(c2, E, M) /\ ~Dropped(c1, c2, E)

\* the promotion rule as Cache.Put has it
PromotionAsCoded(c1, c2, E, M) ==
    IF M.a > E.a \/ (M.a = E.a /\ M.t < E.t)
    THEN Dropped(c1, c2, E)
    ELSE Displaced(c2, E, M) /\ ~Dropped(c1, c2, E)

PutStep(k) == last'.op = "put" /\ last'.k = k /\ IsCache

\* C19: promotion rule on a full MFA: when Put evicts item E from a full
\* LRU and MFA is full, E is dropped and recorded as evicted if and only
\* if the MFA minimum has strictly more accesses than E, or equal accesses
\* and a strictly newer t; otherwise E is put into MFA and displaces the
\* MFA minimum.
C19_PromotionRule ==
    [][\A k \in Keys :
          (PutStep(k) /\ FullPromotion(now(cache), k)) =>
              PromotionAsStated(now(cache), cache',
                                LruOverflow(now(cache), k),
                                peek(now(cache).mfa))]_vars

\* what Cache.Put does on the same path: with equal accesses E is dropped
\* when the MFA minimum is strictly older than E
C19_PromotionAsCoded ==
    [][\A k \in Keys :
          (PutStep(k) /\ FullPromotion(now(cache), k)) =>
              PromotionAsCoded(now(cache), cache',
                               LruOverflow(now(cache), k),
                               peek(now(cache).mfa))]_vars

\* the LRU store after Put(k) pushed the new key k into it
LruAfterPush(c1, k) == storePut(c1.lru, c1.t, k, StrVal(0), 1).c

\* F is in the LRU of c2 as an item written at time t with one access
Reinserted(c2, F, t) ==
    \E i \in DOMAIN c2.lru.pq :
        /\ c2.lru.pq[i].key = F.key
        /\ c2.lru.pq[i].v = F.v
        /\ c2.lru.pq[i].a = 1
        /\ c2.lru.pq[i].t = t

\* the demotion rule for F, displaced from MFA, and L, the LRU store at
\* that moment
DemotionRule(c1, c2, F, L) ==
    /\ StoreLen(L) > 0
    /\ F.key \notin StoreKeys(c2.mfa)
    /\ IF F.a > peek(L).a
       THEN /\ Reinserted(c2, F, c1.t)
            /\ c2.m # evict(c1.m, F.key)
       ELSE /\ F.key \notin CacheKeys(c2)
            /\ c2.m = evict(c1.m, F.key)

\* C20: demotion rule: an item F displaced from MFA by a promotion is
\* put back into LRU with its access count reset to 1 exactly when its
\* access count strictly exceeds that of the current minimum item of LRU;
\* otherwise F is destroyed and recorded as evicted.
C20_DemotionRule ==
    [][\A k \in Keys :
          (/\ PutStep(k)
           /\ FullPromotion(now(cache), k)
           /\ LruOverflow(now(cache), k).key \in StoreKeys(cache'.mfa)) =>
              DemotionRule(now(cache), cache', peek(now(cache).mfa),
                           LruAfterPush(now(cache), k))]_vars

\* C20 witness: the Put just made put an item displaced from MFA back into
\* LRU with one access
C20_Witness ==
    /\ IsCache
    /\ last.op = "put"
    /\ \E i \in DOMAIN cache.lru.pq :
          /\ cache.lru.pq[i].key # last.k
          /\ cache.lru.pq[i].a = 1
          /\ cache.lru.pq[i].t = cache.t
    /\ StoreLen(cache.mfa) = StoreCap(cache.mfa)

\* the other case of the demotion rule: the last Put displaced an item from
\* MFA and destroyed it
C20_Destroyed ==
    /\ IsCache
    /\ last.op = "put"
    /\ last.k \in StoreKeys(cache.lru)
    /\ cache.m.store # <<>>
    /\ cache.m.store[cache.m.pos + 1] \notin CacheKeys(cache)
    /\ \E i \in DOMAIN cache.mfa.pq : cache.mfa.pq[i].t = cache.t

\* the goroutines of forwardMessageAndGetResponse, whatever they do
Goroutines == Callers \X Attempts \X Pools
TaskOf(t) == tasks[t[1]][t[2]][t[3]]

\* pool.shutdown of pool p has marked the pool closed or has closed its
\* channel
Begun(p) == pools[p].closed \/ pools[p].chClosed

\* buffer b1 is buffer b0 with nothing but its first connections taken out
NothingEntered(b0, b1) ==
    /\ Len(b1) <= Len(b0)
    /\ b1 = SubSeq(b0, Len(b0) - Len(b1) + 1, Len(b0))

\* a step in which the goroutine t, which is about to call pool.get on a
\* pool whose shutdown has begun, goes on
GetAfterShutdown(t) ==
    /\ TaskOf(t).pc = "get"
    /\ Begun(t[3])
    /\ tasks'[t[1]][t[2]][t[3]] # TaskOf(t)

\* a step in which pool.shutdown of pool p returns
ShutdownReturns(p) == pools'[p].shutdowns = pools[p].shutdowns + 1

Holders(p, i) == {t \in Goroutines : t[3] = p /\ TaskOf(t).conn = i}

\* a step that closes connection i of pool p or sets its deadline
Touched(p, i) ==
    \/ conns'[p][i].st # conns[p][i].st
    \/ conns'[p][i].dl # conns[p][i].dl

\* a step of the goroutine that exchangeMessages started for the goroutine
\* that holds connection i of pool p now
OwnHelper(p, i) == conns[p][i].helper /\ ~conns'[p][i].helper

\* C17: a connection taken from a pool is owned by one goroutine of
\* forwardMessageAndGetResponse.  No connection is held by two goroutines,
\* none is held and in the buffer of its pool, and while a goroutine holds a
\* connection no step but its own, and that of the goroutine it started to
\* cancel it, closes the connection or sets its deadline.
C17_ExclusiveOwner ==
    /\ [](\A p \in Pools : \A i \in ConnIds : Cardinality(Holders(p, i)) <= 1)
    /\ [](\A p \in Pools : \A i \in Buffered(pools[p]) : Holders(p, i) = {})
    /\ [][\A t \in Goroutines :
             (/\ TaskOf(t).conn # NoConn
              /\ tasks'[t[1]][t[2]][t[3]] = TaskOf(t)
              /\ Touched(t[3], TaskOf(t).conn))
             => OwnHelper(t[3], TaskOf(t).conn)]_vars

\* a goroutine holds a connection that it took from the buffer of its pool
\* while the goroutine that an earlier holder started still waits to set
\* its deadline
C17_StaleHelper ==
    \E t \in Goroutines :
       /\ TaskOf(t).conn # NoConn
       /\ conns[t[3]][TaskOf(t).conn].stale

(***************************************************************************)
(* The scheduler runs every goroutine that can take a step: each goroutine *)
(* of forwardMessageAndGetResponse, the handler, the refresher, the timer  *)
(* and the goroutine of RunWithHandle.  An exchange with an upstream ends: *)
(* the dial returns, and WriteMsg and ReadMsg run under the deadline that  *)
(* exchangeMessages has set.  Nothing is assumed of the clients, of the    *)
(* clock or of the context.                                                *)
(***************************************************************************)
TaskStep(c, a, p) ==
    \/ T_Resolve(c, a, p)
    \/ T_SendNil(c, a, p)
    \/ T_SendResult(c, a, p)

\* the handler in forwardMessageAndCacheResponse
HandlerStep == Recv("serve") \/ Retry("serve")

\* the refresher: its select, and forwardMessageAndCacheResponse
RefresherStep == Recv("refresh") \/ Retry("refresh") \/ R_Take \/ R_Return

\* the goroutine of RunWithHandle
CloserStep == C_Wake \/ C_Servers \/ C_Shutdown

\* a step of some goroutine
GoroutineStep ==
    \/ \E c \in Callers : \E a \in Attempts : \E p \in Pools :
          TaskStep(c, a, p)
    \/ HandlerStep
    \/ RefresherStep
    \/ TimerReturn
    \/ CloserStep

SpecNetFair == SpecNet /\ WF_vars(GoroutineStep)

\* a step in which forwardMessageAndGetResponse returns nothing to caller c
ReturnsNothing(c) ==
    /\ calls[c].pc = "recv"
    /\ calls[c].a \notin calls[c].nils
    /\ calls[c].a \in calls'[c].nils

\* a step in which forwardMessageAndGetResponse returns a response to
\* caller c
ReturnsAnswer(c) ==
    /\ calls[c].pc = "recv"
    /\ calls'[c].pc = "idle"
    /\ calls'[c].reply = "answer"

\* the exchange of the goroutine for pool p of the call that caller c waits
\* for has ended without an acceptable response
Failed(c, p) ==
    /\ tasks[c][calls[c].a][p].pc \in {"send1", "send2", "done"}
    /\ tasks[c][calls[c].a][p].r # "ok"

\* C12: forwardMessageAndGetResponse returns the first acceptable response
\* that a goroutine of the call delivers, and it returns nothing only if
\* the goroutine of every pool has ended without an acceptable response: a
\* pool that fails at once does not make the call return nothing while the
\* goroutine of another pool is still at work.
C12_ForwardResult ==
    [][\A c \in Callers :
          /\ ReturnsAnswer(c) => Head(resps[c][calls[c].a]) = "ok"
          /\ ReturnsNothing(c) => \A p \in Pools : Failed(c, p)]_vars

\* what holds of the code for C12: a response that the call returns is
\* acceptable, and when the call returns nothing the goroutine of some pool
\* has ended without an acceptable response
C12_AsCoded ==
    [][\A c \in Callers :
          /\ ReturnsAnswer(c) => Head(resps[c][calls[c].a]) = "ok"
          /\ ReturnsNothing(c) => \E p \in Pools : Failed(c, p)]_vars

\* the handler waits for a reply
InFlight == calls["serve"].pc # "idle"

Down ==
    /\ ~listening
    /\ \A p \in Pools : pools[p].shutdowns = 1 /\ pools[p].closed
    /\ calls["refresh"].pc = "returned"
    /\ timerPc = "returned"

DemotionAsStated(c1, c2, F, L) ==
    /\ F.key \notin StoreKeys(c2.mfa)
    /\ IF StoreLen(L) = 0 \/ F.a >= peek(L).a
       THEN Reinserted(c2, F, c1.t)
       ELSE Dropped(c1, c2, F)

\* the item that LRU store L gives up when F is put back into it
SecondEviction(c1, F, L) == storePut(L, c1.t, F.key, F.v, 1).evicted

\* the demotion rule as Cache.Put has it: F goes back only with strictly
\* more accesses than the minimum of LRU, and what it pushes out is dropped
\* and recorded
DemotionAsCoded(c1, c2, F, L) ==
    /\ F.key \notin StoreKeys(c2.mfa)
    /\ IF StoreLen(L) > 0 /\ F.a > peek(L).a
       THEN /\ Reinserted(c2, F, c1.t)
            /\ IF SecondEviction(c1, F, L).v = Nil
               THEN c2.m = c1.m
               ELSE Dropped(c1, c2, SecondEviction(c1, F, L))
       ELSE Dropped(c1, c2, F)

\* the Put of new key k displaces the minimum of a full MFA
Displacing(k) ==
    /\ PutStep(k)
    /\ FullPromotion(now(cache), k)
    /\ LruOverflow(now(cache), k).key \in StoreKeys(cache'.mfa)

\* C21: demotion rule (insertion protocol step 4c): an item F displaced
\* from MFA is put into LRU with start_count = 1 whenever LRU is empty or
\* F.a >= the access count of LRU's peek item, and is dropped only when
\* F.a is strictly less than that count.
C21_DemotionAsStated ==
    [][\A k \in Keys :
          Displacing(k) =>
              DemotionAsStated(now(cache), cache', peek(now(cache).mfa),
                               LruAfterPush(now(cache), k))]_vars

\* C21, as Cache.Put has it: an item F displaced from MFA is put into LRU
\* with start_count = 1 only when LRU is not empty and F.a is strictly
\* above the access count of LRU's peek item, and any item G that this LRU
\* put evicts is dropped and recorded; F is dropped and recorded when F.a
\* is equal to or below that count.
C21_DemotionAsCoded ==
    [][\A k \in Keys :
          Displacing(k) =>
              DemotionAsCoded(now(cache), cache', peek(now(cache).mfa),
                              LruAfterPush(now(cache), k))]_vars

\* the item written at the current clock into store s
WrittenNow(s) == {s.pq[i].key : i \in {j \in DOMAIN s.pq : s.pq[j].t = cache.t}}

\* C21 witness, the case of equal access counts: the last Put promoted an
\* item into the full MFA, and the item displaced was dropped and recorded
\* although every item of LRU has one access, no more than the dropped item
C21_Witness ==
    /\ IsCache
    /\ last.op = "put"
    /\ WrittenNow(cache.lru) = {last.k}
    /\ WrittenNow(cache.mfa) # {}
    /\ cache.m.store # <<>>
    /\ cache.m.store[cache.m.pos + 1] \notin CacheKeys(cache)
    /\ \A i \in DOMAIN cache.lru.pq : cache.lru.pq[i].a = 1

\* the other case: the last Put put the displaced item back into LRU, and
\* recorded the item that made room for it
C21_Demoted ==
    /\ IsCache
    /\ last.op = "put"
    /\ WrittenNow(cache.mfa) # {}
    /\ \E f \in WrittenNow(cache.lru) : f # last.k
    /\ cache.m.store # <<>>
    /\ cache.m.store[cache.m.pos + 1] \notin StoreKeys(cache.mfa)

(***************************************************************************)
(* The store on its own, as TestStore, TestReset and TestCompare drive it: *)
(* a store of some size and ordering, and a sequence of put, get, update   *)
(* and reset on it.  The time of an operation is that of the one before or *)
(* the next: the tests give every operation its own time, and Cache.Put    *)
(* calls lru.put, mfa.put and lru.put again with one reading of its clock, *)
(* with a start count of 1 or the access count of the item it moves.       *)
(* put is not called on a store of size 0 (heap.Pop of the empty heap      *)
(* panics): the tests only read such a store and NewCache makes none.      *)
(***************************************************************************)
\* the sizes of the stores: 0 .. MaxStoreSize
StoreSizes == 0 .. MaxStoreSize

\* the start counts given to put
StartCounts == {1, 2}

NoStoreOp ==
    [op |-> "none", k |-> NoKey, v |-> Nil, ok |-> FALSE, seen |-> {},
     now |-> 0, sc |-> 0, evicted |-> ZeroItem]

\* what the tests of the store leave alone
restVars == <<uintMod, cache, newErr, newSize, exp, hits, misses, wall, rq,
              lastPut, netVars>>

\* no cache and no server
NoCacheNoServer ==
    /\ uintMod = MaxUint
    /\ newSize = 0
    /\ cache = NilCache
    /\ newErr = FALSE
    /\ exp = <<>>
    /\ hits = 0
    /\ misses = 0
    /\ nops = 0
    /\ wall = [s |-> 0, h |-> 0]
    /\ rq = <<>>
    /\ lastPut = <<>>
    /\ NetIdle

\* s := newStore(tt.size, tt.typ)
InitStore ==
    /\ store \in {newStore(n, cmp) : n \in StoreSizes,
                                    cmp \in {byTime, byAccesses}}
    /\ last = NoStoreOp
    /\ NoCacheNoServer

\* the times the next operation may have
Nows == {last.now, last.now + 1}

\* the keys the next operation may name: those named so far and the next
NextStoreKeys == {k \in Keys : k <= Cardinality(last.seen) + 1}

\* s.put(now, k, v, sc)
DoStorePut(k, t, sc) ==
    /\ nops < MaxStoreOps
    /\ StoreCap(store) > 0
    /\ \E r \in {storePut(store, t, k, StrVal(nops + 1), sc)} :
          /\ store' = r.c
          /\ last' = [op |-> "put", k |-> k, v |-> StrVal(nops + 1),
                      ok |-> FALSE, seen |-> last.seen \cup {k},
                      now |-> t, sc |-> sc, evicted |-> r.evicted]
    /\ nops' = nops + 1
    /\ UNCHANGED restVars

\* s.get(now, k)
DoStoreGet(k, t) ==
    /\ nops < MaxStoreOps
    /\ \E r \in {storeGet(store, t, k)} :
          /\ store' = r.c
          /\ last' = [op |-> "get", k |-> k, v |-> r.v, ok |-> r.ok,
                      seen |-> last.seen \cup {k}, now |-> t, sc |-> 1,
                      evicted |-> ZeroItem]
    /\ nops' = nops + 1
    /\ UNCHANGED restVars

\* s.update(now, k, v)
DoStoreUpdate(k, t) ==
    /\ nops < MaxStoreOps
    /\ \E r \in {storeUpdate(store, t, k, StrVal(nops + 1))} :
          /\ store' = r.c
          /\ last' = [op |-> "update", k |-> k, v |-> StrVal(nops + 1),
                      ok |-> r.updated, seen |-> last.seen \cup {k},
                      now |-> t, sc |-> 1, evicted |-> ZeroItem]
    /\ nops' = nops + 1
    /\ UNCHANGED restVars

\* time = s.reset(start): the operations that follow go on from the time
\* returned
DoStoreReset(start) ==
    /\ nops < MaxStoreOps
    /\ \E r \in {reset(store, start)} :
          /\ store' = r.c
          /\ last' = [op |-> "reset", k |-> NoKey, v |-> Nil, ok |-> FALSE,
                      seen |-> last.seen, now |-> r.k, sc |-> start,
                      evicted |-> ZeroItem]
    /\ nops' = nops + 1
    /\ UNCHANGED restVars

NextStore ==
    \/ \E k \in NextStoreKeys : \E t \in Nows : \E sc \in StartCounts :
          DoStorePut(k, t, sc)
    \/ \E k \in NextStoreKeys : \E t \in Nows : DoStoreGet(k, t)
    \/ \E k \in NextStoreKeys : \E t \in Nows : DoStoreUpdate(k, t)
    \/ \E start \in {0, 1} : DoStoreReset(start)

SpecStore == InitStore /\ [][NextStore]_vars

(***************************************************************************)
(* TestCompare: s := newStore(0, tt.by); s.less(tt.a, tt.b) and            *)
(* s.less(tt.b, tt.a), for items that differ or not in key, t and a.       *)
(***************************************************************************)
CompareItems ==
    {[key |-> k, v |-> Nil, t |-> t, a |-> a, index |-> 0] :
        k \in {NoKey, 1}, t \in 0 .. MaxCompare, a \in 0 .. MaxCompare}

NoCompare == [op |-> "none", a |-> ZeroItem, b |-> ZeroItem, got |-> FALSE,
              rev |-> FALSE]

InitCompare ==
    /\ store = newStore(0, byTime)
    /\ last = NoCompare
    /\ NoCacheNoServer

DoCompare(by, a, b) ==
    /\ store' = newStore(0, by)
    /\ last' = [op |-> "less", a |-> a, b |-> b,
                got |-> less(newStore(0, by), a, b),
                rev |-> less(newStore(0, by), b, a)]
    /\ UNCHANGED <<nops, restVars>>

NextCompare ==
    \E by \in {byTime, byAccesses} : \E a, b \in CompareItems :
        DoCompare(by, a, b)

SpecCompare == InitCompare /\ [][NextCompare]_vars

(***************************************************************************)
(* Properties of the store.                                                *)
(***************************************************************************)
\* the step is s.put(t, k, v, sc)
StorePutStep(k) == last'.op = "put" /\ last'.k = k /\ nops' = nops + 1

\* the item that the put of the step makes of its arguments
Candidate ==
    [key |-> last'.k, v |-> last'.v, a |-> last'.sc, t |-> last'.now,
     index |-> 0]

\* key k is not in the store and the store is full
AbsentFull(k) == ~Has(store, k) /\ StoreLen(store) = StoreCap(store)

\* x and y have the same place in both orderings
SameRank(x, y) == x.t = y.t /\ x.a = y.a

\* x and y are the same item, wherever they are in the heap
SameItem(x, y) == x.key = y.key /\ x.v = y.v /\ SameRank(x, y)

\* the items of store c without their positions
ItemsOf(c) ==
    {[key |-> c.pq[i].key, v |-> c.pq[i].v, t |-> c.pq[i].t, a |-> c.pq[i].a] :
        i \in DOMAIN c.pq}

Plain(x) == [key |-> x.key, v |-> x.v, t |-> x.t, a |-> x.a]

\* C22: strict tie-breaking: when a store is full and put is called with
\* an absent candidate that has the t and the access count of the store's
\* minimum, the candidate bounces (it is what put returns) and the store
\* is unchanged.
C22_TieBounces ==
    [][\A k \in Keys :
          (/\ StorePutStep(k)
           /\ AbsentFull(k)
           /\ SameRank(Candidate, peek(store)))
          => (SameItem(last'.evicted, Candidate) /\ store' = store)]_vars

\* C22, as store.put has it: when a store is full and put is called with
\* an absent candidate that has the t and the access count of the store's
\* minimum, the store accepts it: the minimum is removed and returned, and
\* the candidate takes its place.
C22_TieAccepted ==
    [][\A k \in Keys :
          (/\ StorePutStep(k)
           /\ AbsentFull(k)
           /\ SameRank(Candidate, peek(store)))
          => (/\ SameItem(last'.evicted, peek(store))
              /\ Has(store', k)
              /\ ~Has(store', peek(store).key))]_vars

\* C22 witness: the last put made the full store give up a minimum that
\* had the time and the access count of the candidate
C22_Witness ==
    /\ last.op = "put"
    /\ last.evicted.key \notin {NoKey, last.k}
    /\ last.evicted.t = last.now
    /\ last.evicted.a = last.sc
    /\ Has(store, last.k)

\* C23: store.put of an absent key into a full store: a candidate strictly
\* smaller than the minimum under the store's ordering is returned as
\* evicted and the store (heap, position map, every item) is unchanged;
\* otherwise exactly the minimum is removed and returned and the candidate
\* is inserted.  The length of the store is the same in both cases.
C23_PutFullStore ==
    [][\A k \in Keys :
          (StorePutStep(k) /\ AbsentFull(k)) =>
             /\ StoreLen(store') = StoreLen(store)
             /\ IF less(store, Candidate, peek(store))
                THEN /\ SameItem(last'.evicted, Candidate)
                     /\ store' = store
                ELSE /\ SameItem(last'.evicted, peek(store))
                     /\ ItemsOf(store') =
                           (ItemsOf(store) \ {Plain(peek(store))})
                              \cup {Plain(Candidate)}
                     /\ DOMAIN store'.m = StoreKeys(store')]_vars

\* C23 witness: the last put named a key that the full store did not have,
\* and the candidate bounced
C23_Witness ==
    /\ last.op = "put"
    /\ last.evicted.key = last.k
    /\ ~Has(store, last.k)
    /\ StoreLen(store) = StoreCap(store)

\* the other case: the last put made a full store give up its minimum
C23_Popped ==
    /\ last.op = "put"
    /\ last.evicted.key \notin {NoKey, last.k}
    /\ Has(store, last.k)

\* store c is a min-heap under its ordering
IsHeap(c) ==
    \A i \in 1 .. (StoreLen(c) - 1) : ~Less(c, i, (i - 1) \div 2)

\* the position map of store c has one entry per item of the heap, and it
\* is the position of the item
InSync(c) ==
    /\ DOMAIN c.m = StoreKeys(c)
    /\ Cardinality(DOMAIN c.m) = StoreLen(c)
    /\ \A i \in 0 .. (StoreLen(c) - 1) : c.m[At(c, i).key] = i

\* C25: after every operation of the store (get, put, update, reset, with
\* bounces and evictions) the store is a valid min-heap under its ordering
\* and its key -> position map is in sync with the heap array: one entry
\* per item, and m[pq[i].key] = i for every position i.
C25_HeapInSync == IsHeap(store) /\ InSync(store)

\* C25 witness: a store of several items after a put that made it give up
\* its minimum
C25_Witness ==
    /\ last.op = "put"
    /\ last.evicted.key \notin {NoKey, last.k}
    /\ StoreLen(store) >= 2
    /\ nops >= 3

RECURSIVE PopOrder(_)
PopOrder(c) ==
    IF StoreLen(c) = 0 THEN <<>>
    ELSE <<heapPop(c).item.key>> \o PopOrder(heapPop(c).c)

\* the access counts of the items of store c in the order heap.Pop gives
\* them
RECURSIVE PopAccesses(_)
PopAccesses(c) ==
    IF StoreLen(c) = 0 THEN <<>>
    ELSE <<heapPop(c).item.a>> \o PopAccesses(heapPop(c).c)

\* the keys that store c gives up when n keys it does not have are put
\* into it at the times k, k + 1, ...
RECURSIVE EvictOrder(_, _, _)
EvictOrder(c, k, n) ==
    IF n = 0 THEN <<>>
    ELSE (IF storePut(c, k, MaxKeys + n, StrVal(0), 1).evicted.key = NoKey
          THEN <<>>
          ELSE <<storePut(c, k, MaxKeys + n, StrVal(0), 1).evicted.key>>)
         \o EvictOrder(storePut(c, k, MaxKeys + n, StrVal(0), 1).c,
                       k + 1, n - 1)

\* the step is s.reset(start)
ResetStep == last'.op = "reset" /\ nops' = nops + 1

\* C27: after reset(start) on a store, in either ordering, the order of
\* the items is preserved: popping all items after the reset gives the keys
\* in the order in which popping them before the reset would have, and for
\* the store ordered by time the puts that follow, at times from the
\* returned clock on, evict the old items in that order.
C27_ResetKeepsOrder ==
    [][ResetStep =>
          /\ PopOrder(store') = PopOrder(store)
          /\ store.cmp = byTime =>
                EvictOrder(store', last'.now, StoreCap(store'))
                   = PopOrder(store)]_vars

\* C27, as reset has it: on the store ordered by time the pop order of the
\* keys is preserved and the puts that follow evict the old items in that
\* order; on the store ordered by accesses reset keeps every item with its
\* value and access count and the order of the access counts, and sets
\* every t to 0.
C27_ResetOrder ==
    [][ResetStep =>
          IF store.cmp = byTime
          THEN /\ PopOrder(store') = PopOrder(store)
               /\ EvictOrder(store', last'.now, StoreCap(store'))
                     = PopOrder(store)
          ELSE /\ PopAccesses(store') = PopAccesses(store)
               /\ ItemsOf(store') =
                     {[x EXCEPT !.t = 0] : x \in ItemsOf(store)}]_vars

\* C27 witness: a store ordered by time was reset with several items in
\* it, items that were last written at one time among them
C27_Witness ==
    /\ last.op = "reset"
    /\ store.cmp = byTime
    /\ StoreLen(store) >= 3
    /\ \E i \in DOMAIN store.pq : store.pq[i].a >= 2

\* the item of key k in store c, without its position
ItemIn(c, k) == Plain(At(c, c.m[k]))

\* store s1 is store s0 with the item of key k given value v and time t
\* and one more access, and nothing else changed
UpdatedInPlace(s0, s1, k, v, t) ==
    /\ ItemsOf(s1) =
          (ItemsOf(s0) \ {ItemIn(s0, k)})
             \cup {[key |-> k, v |-> v, t |-> t, a |-> ItemIn(s0, k).a + 1]}
    /\ StoreKeys(s1) = StoreKeys(s0)
    /\ StoreLen(s1) = StoreLen(s0)

\* C24: Cache.Put of a key already present (in MFA or in LRU) only updates
\* that item in place (new value, t = now, access count + 1): the key
\* stays in the store it was in, no other item is evicted, promoted or
\* demoted, the key sets of both stores and Len() are unchanged, and no
\* eviction is recorded.
C24_PutPresent ==
    [][\A k \in Keys :
          (PutStep(k) /\ k \in CacheKeys(cache)) =>
             /\ cache'.m = cache.m
             /\ CacheLen(cache') = CacheLen(cache)
             /\ IF Has(cache.mfa, k)
                THEN /\ UpdatedInPlace(cache.mfa, cache'.mfa, k, last'.v,
                                       now(cache).t)
                     /\ cache'.lru = cache.lru
                ELSE /\ UpdatedInPlace(cache.lru, cache'.lru, k, last'.v,
                                       now(cache).t)
                     /\ cache'.mfa = cache.mfa]_vars

\* C24 witness: the last Put named a key that was in MFA, next to another
\* item, and the key is there with the value just put and one more access
C24_Witness ==
    /\ IsCache
    /\ last.op = "put"
    /\ Has(cache.mfa, last.k)
    /\ StoreLen(cache.mfa) >= 2
    /\ ItemIn(cache.mfa, last.k).v = last.v
    /\ ItemIn(cache.mfa, last.k).t = cache.t
    /\ ItemIn(cache.mfa, last.k).a >= 2
    /\ StoreLen(cache.lru) = StoreCap(cache.lru)

(***************************************************************************)
(* TestCache, "push out of evict ring": a cache with evict metrics, a run  *)
(* of Puts that fills the ring of evicted keys and goes round it, and Gets *)
(* after them.                                                             *)
(***************************************************************************)
InitRing ==
    /\ uintMod = MaxUint
    /\ newSize \in 2 .. MaxSize
    /\ cache = NewCache(newSize, TRUE).c
    /\ newErr = NewCache(newSize, TRUE).err
    /\ wall = [s |-> 0, h |-> 0]
    /\ rq = <<>>
    /\ lastPut = <<>>
    /\ exp = <<>>
    /\ hits = 0
    /\ misses = 0
    /\ nops = 0
    /\ last = NoOp
    /\ store = newStore(0, byTime)
    /\ NetIdle

\* case put: c.Put(v.k, v.v), while no Get was made
RingPut(k) ==
    /\ nops < MaxRingOps
    /\ last.op # "get"
    /\ cache' = Put(cache, k, StrVal(nops + 1))
    /\ exp' = MapSet(exp, k, StrVal(nops + 1))
    /\ nops' = nops + 1
    /\ last' = [op |-> "put", k |-> k, v |-> StrVal(nops + 1), ok |-> FALSE,
                seen |-> last.seen \cup {k}]
    /\ UNCHANGED <<uintMod, newErr, newSize, hits, misses, serverVars,
                   netVars, store>>

\* case get: c.Get(v.k)
RingGet(k) ==
    /\ nops < MaxRingOps
    /\ \E r \in {Get(cache, k)} :
          /\ cache' = r.c
          /\ hits' = IF r.ok THEN hits + 1 ELSE hits
          /\ misses' = IF r.ok THEN misses ELSE misses + 1
          /\ last' = [op |-> "get", k |-> k, v |-> r.v, ok |-> r.ok,
                      seen |-> last.seen \cup {k}]
    /\ nops' = nops + 1
    /\ UNCHANGED <<uintMod, newErr, newSize, exp, serverVars, netVars,
                   store>>

NextRing ==
    \/ \E k \in NextKeys : RingPut(k)
    \/ \E k \in NextKeys : RingGet(k)

SpecRing == InitRing /\ [][NextRing]_vars

\* the keys in the ring of evicted keys
Ring(m) == {m.store[i] : i \in DOMAIN m.store}

\* the step is a Get of key k that misses
GetMisses(k) ==
    /\ last'.op = "get"
    /\ last'.k = k
    /\ ~last'.ok
    /\ nops' = nops + 1

\* C28: with evict metrics on a cache of capacity N, a Get miss for key k
\* increments RecentlyEvictedMiss if and only if k is among the N most
\* recently evicted keys (the ring): the header set always equals the set
\* of keys stored in the ring, also when a key was evicted more than once,
\* and a key pushed out of the ring by later evictions is not counted.
C28_RingMembership ==
    /\ [](cache.m.header = Ring(cache.m))
    /\ [][\A k \in Keys :
             GetMisses(k) =>
                (cache'.m.RecentlyEvictedMiss =
                    cache.m.RecentlyEvictedMiss
                       + (IF k \in Ring(cache.m) THEN 1 ELSE 0))]_vars

\* what metrics.miss does: it counts the keys of the header
C28_HeaderMembership ==
    /\ [](cache.m.header \subseteq Ring(cache.m))
    /\ [][\A k \in Keys :
             GetMisses(k) =>
                (cache'.m.RecentlyEvictedMiss =
                    cache.m.RecentlyEvictedMiss
                       + (IF k \in cache.m.header THEN 1 ELSE 0))]_vars

\* a key is in the ring twice
C28_EvictedTwice ==
    Cardinality(Ring(cache.m)) < Len(cache.m.store)

(***************************************************************************)
(* cache.put on its own: responses with any answer section are put into    *)
(* the wrapper's cache while time passes.                                  *)
(***************************************************************************)
\* the answer sections put: none, a TTL below minTTL, minTTL itself, two
\* records, and the largest TTL the cache keeps
PutTtls == {<<>>, <<10>>, <<minTTL>>, <<1000, 900>>, <<maxTTL>>}

PutReplies ==
    {[rcode |-> RcodeSuccess, ttls |-> s, tc |-> FALSE] : s \in PutTtls}
    \cup {[rcode |-> RcodeNameError, ttls |-> <<>>, tc |-> FALSE]}

InitPut ==
    /\ uintMod = MaxUint
    /\ newSize \in 2 .. MaxSize
    /\ cache = NewCache(newSize, FALSE).c
    /\ newErr = FALSE
    /\ exp = <<>>
    /\ hits = 0
    /\ misses = 0
    /\ nops = 0
    /\ last = NoAnswer
    /\ wall = [s |-> 0 - (MaxSteps * (minTTL + 1)), h |-> 0]
    /\ rq = <<>>
    /\ lastPut = <<>>
    /\ store = newStore(0, byTime)
    /\ NetIdle

\* cache.put(q, v) at the time of the wall clock
WrapperPut(q, v) ==
    /\ nops < MaxSteps
    /\ cache' = cachePut(cache, wall, q, v)
    /\ lastPut' = Stored(lastPut, q, v)
    /\ last' = [NoAnswer EXCEPT !.op = "put", !.q = q, !.m = v]
    /\ nops' = nops + 1
    /\ UNCHANGED <<uintMod, newErr, newSize, harnessVars, wall, rq, netVars,
                   store>>

NextPut ==
    \/ \E name \in 1 .. Min(MaxNames, Cardinality(seenNames) + 1) :
          \E rep \in PutReplies :
              WrapperPut(Query(1, name), Response(Query(1, name), rep))
    \/ Tick(0, 1)
    \/ Tick(minTTL + 1, 0)

SpecPut == InitPut /\ [][NextPut]_vars

\* the TTLs of the answers of m, each raised to minTTL
ClampedTtls(m) ==
    {IF m.Answer[i].Ttl < minTTL THEN minTTL ELSE m.Answer[i].Ttl :
        i \in DOMAIN m.Answer}

\* the smallest of them, and maxTTL when there is no answer
LeastTtl(m) ==
    IF m.Answer = <<>> THEN maxTTL
    ELSE CHOOSE x \in ClampedTtls(m) : \A y \in ClampedTtls(m) : x <= y

\* the step is cache.put of a NOERROR response
PutsSuccess == last'.op = "put" /\ last'.m.Rcode = RcodeSuccess /\ nops' = nops + 1

\* C29: cache.put of a NOERROR response r at time now stores the expiry
\* now + the least over r's answers of max(ttl, minTTL), and now + maxTTL
\* when r has no answers, so that the expiry of the stored entry is not
\* before now + minTTL and not after now + maxTTL.
C29_PutExpiry ==
    [][PutsSuccess =>
         \E g \in {Get(cache', key(last'.q))} :
            g.ok =>
               /\ g.v.exp = TimeAdd(wall, LeastTtl(last'.m))
               /\ ~Before(g.v.exp, TimeAdd(wall, minTTL))
               /\ ~Before(TimeAdd(wall, maxTTL), g.v.exp)]_vars

\* C29 witness: a response without answers was just stored and expires
\* maxTTL from now, next to an entry whose answer had a TTL of 10 seconds
\* and that was stored one tick earlier
C29_Witness ==
    /\ last.op = "put"
    /\ last.m # NilMsg
    /\ last.m.Rcode = RcodeSuccess
    /\ last.m.Answer = <<>>
    /\ Get(cache, key(last.q)).ok
    /\ Get(cache, key(last.q)).v.exp = TimeAdd(wall, maxTTL)
    /\ \E name \in Names :
          /\ key(Query(1, name)) # key(last.q)
          /\ Get(cache, key(Query(1, name))).ok
          /\ Get(cache, key(Query(1, name))).v.m.Answer # <<>>
          /\ Get(cache, key(Query(1, name))).v.m.Answer[1].Ttl = 10
          /\ Before(Get(cache, key(Query(1, name))).v.exp,
                    TimeAdd(wall, minTTL))

\* the goroutine t of a call that has not returned sends a value on the
\* call's channel in this step
SendsOn(t) ==
    /\ Current(t[1], t[2])
    /\ TaskOf(t) # tasks'[t[1]][t[2]][t[3]]
    /\ Len(resps'[t[1]][t[2]]) = Len(resps[t[1]][t[2]]) + 1

\* the goroutine t ends in this step
EndsNow(t) ==
    /\ Current(t[1], t[2])
    /\ TaskOf(t).pc # "done"
    /\ tasks'[t[1]][t[2]][t[3]].pc = "done"

\* C30: each goroutine of forwardMessageAndGetResponse emits exactly one
\* result on the channel of its call, on the success path and on every
\* error path: it sends in the step in which it ends, and in no other.
C30_ExactlyOneResult ==
    [][\A t \in Goroutines : SendsOn(t) <=> EndsNow(t)]_vars

\* what holds of the code: a goroutine that ends sends as it ends, and a
\* goroutine that sends without ending has a nil result and sends nil
C30_AtLeastOneResult ==
    [][\A t \in Goroutines :
          /\ EndsNow(t) => SendsOn(t)
          /\ SendsOn(t) /\ ~EndsNow(t) =>
                /\ TaskOf(t).pc = "send1"
                /\ TaskOf(t).r = "nil"]_vars

(***************************************************************************)
(* The goroutines of a call that has returned.                             *)
(***************************************************************************)
\* goroutine t belongs to a call of forwardMessageAndGetResponse that has
\* returned, and has its exchange with the upstream before it
Loser(t) == TaskOf(t).pc = "get" /\ ~Current(t[1], t[2])

\* goroutine t does its exchangeMessages in this step
Resolves(t) ==
    /\ TaskOf(t).pc = "get"
    /\ tasks'[t[1]][t[2]][t[3]].pc # "get"

\* in this step the connection that pool.get of pool p returns (the head
\* of the buffer, or a new one) goes to the end of the buffer: pool.put,
\* which exchangeMessages calls only after it has read a response
GaveBack(p) ==
    /\ pools'[p].buf # <<>>
    /\ \E i \in {pools'[p].buf[Len(pools'[p].buf)]} :
          IF pools[p].buf # <<>> THEN i = Head(pools[p].buf)
          ELSE conns[p][i].st # "open"

\* C31: when forwardMessageAndGetResponse returns, the goroutines of the
\* call that have not finished their exchange are signalled and abort it:
\* none of them waits for the answer of its upstream and reads it.
C31_LosersAbort ==
    [][\A t \in Goroutines : Loser(t) /\ Resolves(t) => ~GaveBack(t[3])]_vars

\* a goroutine of a call that has returned is still to do its exchange
C31_LoserRuns == \E t \in Goroutines : Loser(t)

(***************************************************************************)
(* The refresher at work: queries are answered from the cache or           *)
(* forwarded, soft-expired answers are queued for refresh, and the         *)
(* refresher takes them from the queue, over runs long enough for queued   *)
(* keys to leave the cache before their refresh.                           *)
(***************************************************************************)
\* the response an upstream gives for a name that does not exist
NxReply == [rcode |-> RcodeNameError, ttls |-> <<>>, tc |-> FALSE]

\* the upstreams answer NOERROR or NXDOMAIN at once, or never within the
\* retries
RefreshOutcomes ==
    {[nfail |-> 0, rep |-> OkReply],
     [nfail |-> 0, rep |-> NxReply],
     [nfail |-> connectionsPerUpstream + 1, rep |-> OkReply]}

RefreshQueries ==
    {Query(1, name) :
        name \in 1 .. Min(MaxRefreshNames, Cardinality(seenNames) + 1)}

\* NewServer(2, false)
InitRefresh ==
    /\ uintMod = MaxUint
    /\ newSize = 2
    /\ cache = NewCache(newSize, FALSE).c
    /\ newErr = FALSE
    /\ exp = <<>>
    /\ hits = 0
    /\ misses = 0
    /\ nops = 0
    /\ last = NoAnswer
    /\ wall = [s |-> 0 - (minTTL + 1), h |-> 0]
    /\ rq = <<>>
    /\ lastPut = <<>>
    /\ store = newStore(0, byTime)
    /\ NetIdle

\* Server.refresh with a queue of MaxQueue places
refreshUpTo(queue, q) ==
    IF Len(queue) < Min(refreshQueueSize, MaxQueue) THEN Append(queue, q)
    ELSE queue

\* Server.GetAnswer for query q
Answer(q, out) ==
    /\ nops < MaxRefreshOps
    /\ nops' = nops + 1
    /\ \E g \in {cacheGet(cache, wall, q)} :
          IF g.ok
          THEN /\ cache' = g.c
               /\ last' = [op |-> "answer", q |-> q, m |-> g.m,
                           from |-> "fresh", calls |-> 0, nfail |-> 0]
               /\ UNCHANGED <<rq, lastPut>>
          ELSE IF g.m # NilMsg
          THEN /\ cache' = g.c
               /\ rq' = refreshUpTo(rq, q)
               /\ last' = [op |-> "answer", q |-> q, m |-> g.m,
                           from |-> "stale", calls |-> 0, nfail |-> 0]
               /\ UNCHANGED lastPut
          ELSE \E f \in {forwardMessageAndCacheResponse(g.c, wall, q, out)} :
               /\ cache' = f.c
               /\ lastPut' = Stored(lastPut, q, f.m)
               /\ last' = [op |-> "answer", q |-> q, m |-> f.m,
                           from |-> "upstream", calls |-> f.calls,
                           nfail |-> out.nfail]
               /\ UNCHANGED rq
    /\ UNCHANGED <<uintMod, newErr, newSize, harnessVars, wall, netVars, store>>

\* one turn of Server.refresher: the case q := <-s.rq of its select
Refresh(out) ==
    /\ nops < MaxRefreshOps
    /\ rq # <<>>
    /\ \E f \in {forwardMessageAndCacheResponse(cache, wall, Head(rq), out)} :
          /\ cache' = f.c
          /\ lastPut' = Stored(lastPut, Head(rq), f.m)
          /\ last' = [op |-> "refresh", q |-> Head(rq), m |-> f.m,
                      from |-> "upstream", calls |-> f.calls,
                      nfail |-> out.nfail]
    /\ rq' = Tail(rq)
    /\ nops' = nops + 1
    /\ UNCHANGED <<uintMod, newErr, newSize, harnessVars, wall, netVars, store>>

\* the wall clock goes past the expiry of what the cache holds
Expire ==
    /\ nops < MaxRefreshOps
    /\ wall.s < 0
    /\ wall' = [wall EXCEPT !.s = @ + minTTL + 1]
    /\ nops' = nops + 1
    /\ last' = [NoAnswer EXCEPT !.op = "tick"]
    /\ UNCHANGED <<uintMod, cache, newErr, newSize, harnessVars, rq, lastPut,
                   netVars, store>>

NextRefresh ==
    \/ \E q \in RefreshQueries : Answer(q, [nfail |-> 0, rep |-> OkReply])
    \/ \E out \in RefreshOutcomes : Refresh(out)
    \/ Expire

SpecRefresh == InitRefresh /\ [][NextRefresh]_vars

\* the step is a refresh that obtains a NOERROR response
RefreshedNow ==
    /\ last'.op = "refresh"
    /\ nops' = nops + 1
    /\ last'.m # NilMsg
    /\ last'.m.Rcode = RcodeSuccess

\* the refresher takes the queries in the order they were queued in, one
\* at a time, and what it takes goes through
\* forwardMessageAndCacheResponse
TakesInOrder ==
    (last'.op = "refresh" /\ nops' = nops + 1) =>
        /\ rq # <<>>
        /\ last'.q = Head(rq)
        /\ rq' = Tail(rq)
        /\ \E out \in RefreshOutcomes :
              /\ cache' = forwardMessageAndCacheResponse(cache, wall,
                                                         Head(rq), out).c
              /\ last'.m = forwardMessageAndCacheResponse(cache, wall,
                                                          Head(rq), out).m

\* after a refresh with a NOERROR response the next get of the question
\* is a fresh hit, which queues nothing
RenewedNow ==
    RefreshedNow =>
        /\ cacheGet(cache', wall', last'.q).ok
        /\ ~Before(Get(cache', key(last'.q)).v.exp, TimeAdd(wall', minTTL))

C32_RefreshRenews == [][TakesInOrder /\ RenewedNow]_vars

\* what holds of the code: the refresher takes the queries in order, and a
\* refresh with a NOERROR response of a question whose entry is still in
\* the cache renews it
C32_RenewsPresent ==
    [][/\ TakesInOrder
       /\ (last'.op = "refresh" /\ Get(cache, key(last'.q)).ok)
             => RenewedNow]_vars

\* two different questions wait in the queue
C32_TwoQueued == Len(rq) = 2 /\ rq[1] # rq[2]

\* what holds of the running server: while the context is not done, a
\* query in the queue is taken by the refresher
C32_QueueDrains == (rq # <<>>) ~> (rq = <<>> \/ ctxDone)

(***************************************************************************)
(* The connections of the pools, checked under SpecPool.                   *)
(***************************************************************************)
\* the goroutines that hold connection i of pool p
HoldersOf(p, i) ==
    {t \in Goroutines : t[3] = p /\ TaskOf(t).conn = i}

\* every connection in a buffer is open and is there once, every
\* connection a goroutine holds is open, held by that goroutine alone and
\* in no buffer: Close, which is called on held and on buffered
\* connections only and lets them go, meets no closed connection
OpenAndOwned ==
    \A p \in Pools :
        /\ \A n \in DOMAIN pools[p].buf :
              /\ conns[p][pools[p].buf[n]].st = "open"
              /\ \A n2 \in DOMAIN pools[p].buf :
                    pools[p].buf[n] = pools[p].buf[n2] => n = n2
        /\ \A i \in ConnIds :
              /\ Cardinality(HoldersOf(p, i)) <= 1
              /\ HoldersOf(p, i) # {} =>
                    /\ conns[p][i].st = "open"
                    /\ i \notin Buffered(pools[p])

\* a connection that comes into the buffer of pool p in this step is
\* given by the goroutine that held it, after an exchange that ended with
\* a response
PutAfterResponse(p) ==
    \A i \in Buffered(pools'[p]) \ Buffered(pools[p]) :
        \E t \in HoldersOf(p, i) :
            /\ TaskOf(t).pc = "give"
            /\ TaskOf(t).r # "nil"

\* a goroutine whose exchange ends with an error or without a response in
\* this step closes its connection and lets it go
ClosedOnFailure(t) ==
    (/\ TaskOf(t).pc = "io"
     /\ TaskOf(t).conn # NoConn
     /\ tasks'[t[1]][t[2]][t[3]].pc = "send1")
    => /\ conns'[t[3]][TaskOf(t).conn].st # "open"
       /\ tasks'[t[1]][t[2]][t[3]].conn = NoConn
       /\ TaskOf(t).conn \notin Buffered(pools'[t[3]])

\* C33: a connection on which the write or the read failed, or which read
\* no response, is closed and does not go back to the pool: every
\* connection in the buffer of a pool is open and was put there after an
\* exchange that ended with a response, and no connection is closed twice.
C33_FailedConnClosed ==
    /\ []OpenAndOwned
    /\ [][/\ \A p \in Pools : PutAfterResponse(p)
          /\ \A t \in Goroutines : ClosedOnFailure(t)]_vars

\* C33 witness: the second connection of the first upstream waits in the
\* buffer after an exchange with a response, and the first one, dialed
\* before it, was closed after an exchange that failed
C33_Witness ==
    /\ pools[1].buf = <<2>>
    /\ conns[1][2].st = "open"
    /\ conns[1][1].st # "open"
    /\ ~pools[1].closed

(***************************************************************************)
(* LRU churn: after any run of the harness, keys never seen before are     *)
(* put one after the other, with no Get in between.  The harness           *)
(* remembers what the stores held when the churn began.                    *)
(***************************************************************************)
\* the keys never used so far
FreshKeys ==
    {k \in 1 .. (MaxKeys + MaxChurn) : k \notin DOMAIN exp \cup last.seen}

\* the access counts of the items of store c
AccessesOf(c) == {c.pq[i].a : i \in DOMAIN c.pq}

\* what the harness remembers of the cache at the beginning of a churn
ChurnStart ==
    [n |-> 0,
     mfa0 |-> StoreKeys(cache.mfa),
     lru1 |-> {cache.lru.pq[i].key :
                  i \in {j \in DOMAIN cache.lru.pq : cache.lru.pq[j].a = 1}},
     mfaTwice |-> \A a \in AccessesOf(cache.mfa) : a >= 2,
     mfaFull |-> StoreLen(cache.mfa) = StoreCap(cache.mfa),
     lruOnce |-> AccessesOf(cache.lru) \subseteq {1}]

\* c.Put(k, v) for the least key never seen
ChurnPut ==
    /\ ~newErr
    /\ cache # NilCache
    /\ FreshKeys # {}
    /\ last.op = "churn" => last.churn.n < MaxChurn
    /\ \E k \in {CHOOSE x \in FreshKeys : \A y \in FreshKeys : x <= y} :
          /\ cache' = Put(cache, k, StrVal(nops + 1))
          /\ exp' = MapSet(exp, k, StrVal(nops + 1))
          /\ last' = [op |-> "churn", k |-> k, v |-> StrVal(nops + 1),
                      ok |-> FALSE, seen |-> last.seen \cup {k},
                      churn |-> [(IF last.op = "churn" THEN last.churn
                                  ELSE ChurnStart)
                                 EXCEPT !.n = @ + 1]]
    /\ nops' = nops + 1
    /\ UNCHANGED <<uintMod, newErr, newSize, hits, misses, serverVars,
                   netVars, store>>

NextChurn ==
    \/ \E k \in NextKeys : DoPut(k)
    \/ \E k \in NextKeys : DoGet(k)
    \/ ChurnPut

SpecChurn == InitCache /\ [][NextChurn]_vars

\* the churn has gone on for as many Puts as LRU has places
ChurnedThrough == last.churn.n >= newSize \div 2

\* C34 as stated: if every item of MFA has two accesses or more, Puts of
\* keys never seen, with no Get in between, leave the keys of MFA as they
\* are, and a key that was in LRU with one access is gone after
\* floor(N/2) of them.
C34_ChurnAsStated ==
    (last.op = "churn" /\ last.churn.mfaTwice) =>
        /\ StoreKeys(cache.mfa) = last.churn.mfa0
        /\ ChurnedThrough => last.churn.lru1 \cap CacheKeys(cache) = {}

\* C34, amended: if MFA is full, every item of MFA has two accesses or
\* more and every item of LRU has one, Puts of keys never seen, with no Get
\* in between, leave MFA as it is: every key that leaves LRU is dropped,
\* and a key that was in LRU is gone after floor(N/2) of them.
C34_Churn ==
    (/\ last.op = "churn"
     /\ last.churn.mfaTwice
     /\ last.churn.mfaFull
     /\ last.churn.lruOnce) =>
        /\ StoreKeys(cache.mfa) = last.churn.mfa0
        /\ AccessesOf(cache.lru) \subseteq {1}
        /\ \A a \in AccessesOf(cache.mfa) : a >= 2
        /\ ChurnedThrough => last.churn.lru1 \cap CacheKeys(cache) = {}

\* C34 witness: MFA was full of keys with two accesses or more, LRU had
\* a key with one access, and after floor(N/2) Puts of new keys the key of
\* LRU is gone and MFA has the keys it had
C34_Witness ==
    /\ last.op = "churn"
    /\ last.churn.mfaTwice
    /\ last.churn.mfaFull
    /\ last.churn.lruOnce
    /\ last.churn.lru1 # {}
    /\ last.churn.mfa0 # {}
    /\ ChurnedThrough
    /\ StoreKeys(cache.mfa) = last.churn.mfa0
    /\ last.churn.lru1 \cap CacheKeys(cache) = {}
    /\ last.k \in StoreKeys(cache.lru)

(***************************************************************************)
(* The wraparound of the clock: the harness of the cache with a uint of    *)
(* few values, so that Cache.now comes to 0 within a run and resets the    *)
(* stores.                                                                 *)
(***************************************************************************)
InitWrap ==
    /\ uintMod = WrapUint
    /\ newSize \in 2 .. Min(MaxSize, maxsize)
    /\ cache = NewCache(newSize, TRUE).c
    /\ newErr = FALSE
    /\ wall = [s |-> 0, h |-> 0]
    /\ rq = <<>>
    /\ lastPut = <<>>
    /\ exp = <<>>
    /\ hits = 0
    /\ misses = 0
    /\ nops = 0
    /\ last = NoOp
    /\ store = newStore(0, byTime)
    /\ NetIdle

\* c.lru.put(now, k, v, 1) of Cache.Put on c1 (the cache after the clock
\* is read) comes to heap.Pop of an empty heap: LRU has no place, so
\* len(c.pq) == cap(c.pq) with nothing to bounce against, and
\* container/heap swaps c.pq[0] and c.pq[-1]
PutPanics(c1, k) ==
    /\ ~Has(c1.mfa, k)
    /\ ~Has(c1.lru, k)
    /\ StoreCap(c1.lru) = 0

\* c.Put(k, v)
WrapPut(k) ==
    /\ ~panicked
    /\ nops < MaxWrapOps
    /\ IF PutPanics(now(cache), k)
       THEN /\ cache' = now(cache)
            /\ panicked' = TRUE
            /\ UNCHANGED exp
       ELSE /\ cache' = Put(cache, k, StrVal(nops + 1))
            /\ exp' = MapSet(exp, k, StrVal(nops + 1))
            /\ UNCHANGED panicked
    /\ nops' = nops + 1
    /\ last' = [op |-> "put", k |-> k, v |-> StrVal(nops + 1), ok |-> FALSE,
                seen |-> last.seen \cup {k}]
    /\ UNCHANGED <<uintMod, newErr, newSize, hits, misses, serverVars, pools,
                   conns, tasks, calls, resps, ctxDone, closer, listening,
                   timerPc, currentTime, store>>

\* c.Get(k)
WrapGet(k) ==
    /\ ~panicked
    /\ nops < MaxWrapOps
    /\ \E r \in {Get(cache, k)} :
          /\ cache' = r.c
          /\ hits' = IF r.ok THEN hits + 1 ELSE hits
          /\ misses' = IF r.ok THEN misses ELSE misses + 1
          /\ last' = [op |-> "get", k |-> k, v |-> r.v, ok |-> r.ok,
                      seen |-> last.seen \cup {k}]
    /\ nops' = nops + 1
    /\ UNCHANGED <<uintMod, newErr, newSize, exp, serverVars, netVars, store>>

\* the keys of the run: those used so far and the next one, of WrapKeys
NextWrap ==
    \/ \E k \in NextKeys \cap (1 .. WrapKeys) : WrapPut(k)
    \/ \E k \in NextKeys \cap (1 .. WrapKeys) : WrapGet(k)

SpecWrap == InitWrap /\ [][NextWrap]_vars

\* C35: capacity is stable across the wraparound of the clock: when the
\* counter comes to 0 and both stores are reset, each store keeps its
\* capacity, Cap() is still N and later Puts go on as before, also when
\* LRU was empty or not full at that moment.
C35_CapacityStable ==
    /\ ~panicked
    /\ StoreCap(cache.lru) = newSize \div 2
    /\ StoreCap(cache.mfa) = (newSize \div 2) + (newSize % 2)
    /\ CacheCap(cache) = newSize

\* what holds of the code: MFA keeps its capacity, and LRU has as many
\* places after the wraparound as it had items then
C35_CapacityAsCoded ==
    /\ StoreCap(cache.mfa) = (newSize \div 2) + (newSize % 2)
    /\ StoreCap(cache.lru) <= newSize \div 2
    /\ StoreLen(cache.lru) <= StoreCap(cache.lru)
    /\ [][(cache'.t # 0 \/ cache.t = 0) =>
             StoreCap(cache'.lru) = StoreCap(cache.lru)]_vars
    /\ [][(cache'.t = 0 /\ cache.t # 0) =>
             StoreCap(cache'.lru) = StoreLen(cache.lru)]_vars

\* the clock has wrapped with items in LRU, and a Put has gone on as
\* before
C35_WrappedFull ==
    /\ cache.t < 2
    /\ nops > 2
    /\ last.op = "put"
    /\ StoreLen(cache.lru) > 0
    /\ CacheCap(cache) = newSize

\* the goroutines of pool p that have not ended
RunningOn(p) == {t \in Running : t[3] = p}

\* C36: no connection leaks: every connection that is open is in the
\* buffer of its pool or in the hands of a goroutine that will close it or
\* put it back, and once a pool is shut down and its goroutines have ended
\* every connection it dialed is closed, the one that a goroutine gave to
\* pool.put after the shutdown included.
C36_NoConnectionLeak ==
    \A p \in Pools :
        /\ \A i \in ConnIds :
              conns[p][i].st = "open" =>
                 i \in Buffered(pools[p]) \/ HoldersOf(p, i) # {}
        /\ (pools[p].shutdowns > 0 /\ RunningOn(p) = {}) =>
              \A i \in ConnIds : conns[p][i].st # "open"

\* what holds of the code: a connection that is open and that nothing
\* refers to was given to pool.put of a pool that is closed
C36_LeakOnlyAfterShutdown ==
    \A p \in Pools : \A i \in ConnIds :
        (conns[p][i].st = "open" /\ ~pools[p].closed) =>
            i \in Buffered(pools[p]) \/ HoldersOf(p, i) # {}

(***************************************************************************)
(* One call of forwardMessageAndGetResponse of a server with any number    *)
(* of upstreams: the channel resps has len(s.pools) places, a send waits   *)
(* while it is full, and nothing receives once the call has returned.      *)
(* What exchangeMessages comes to is the upstream's doing.                 *)
(***************************************************************************)
\* NewServer(2, false, upstreamServers...) with 1 .. MaxPools upstreams
InitForward ==
    /\ uintMod = MaxUint
    /\ newSize = 2
    /\ cache = NewCache(newSize, FALSE).c
    /\ newErr = FALSE
    /\ exp = <<>>
    /\ hits = 0
    /\ misses = 0
    /\ nops = 0
    /\ last = NoAnswer
    /\ wall = [s |-> 0 - (minTTL + 1), h |-> 0]
    /\ rq = <<>>
    /\ lastPut = <<>>
    /\ store = newStore(0, byTime)
    /\ \E n \in 1 .. MaxPools :
          /\ pools = [p \in 1 .. n |-> newPool(connectionsPerUpstream)]
          /\ conns = [p \in 1 .. n |-> [i \in ConnIds |-> NoConnRec]]
          /\ tasks = [c \in Callers |->
                         [a \in Attempts |-> [p \in 1 .. n |-> NoTask]]]
    /\ calls = [c \in Callers |-> NoCall]
    /\ resps = [c \in Callers |-> [a \in Attempts |-> <<>>]]
    /\ ctxDone = FALSE
    /\ closer = [pc |-> "wait", p |-> 1]
    /\ listening = TRUE
    /\ timerPc = "run"
    /\ currentTime = 0
    /\ panicked = FALSE

\* len(s.pools), and cap(resps)
LenPools == Cardinality(DOMAIN pools)

\* the handler calls forwardMessageAndGetResponse: make(chan *dns.Msg,
\* len(s.pools)) and one goroutine per pool
F_Start ==
    /\ calls["serve"].pc = "idle"
    /\ calls["serve"].served = 0
    /\ calls' = [calls EXCEPT !["serve"] = Started("serve", Query(1, 1))]
    /\ tasks' = [tasks EXCEPT !["serve"][0] = [p \in DOMAIN pools |-> NewTask]]
    /\ resps' = [resps EXCEPT !["serve"][0] = <<>>]
    /\ UNCHANGED <<pools, conns, ctxDone, closer, listening, timerPc,
                   currentTime, panicked, oldVars>>

\* the goroutine for pool p: r, err := s.exchangeMessages(p, q), which
\* comes to kind k
F_Exchange(p, k) ==
    /\ tasks["serve"][0][p].pc = "get"
    /\ tasks' = [tasks EXCEPT !["serve"][0][p] =
                    [pc |-> IF k = "nil" THEN "send1" ELSE "send2",
                     conn |-> NoConn, r |-> k]]
    /\ UNCHANGED <<pools, conns, calls, resps, ctxDone, closer, listening,
                   timerPc, currentTime, panicked, oldVars>>

\* the goroutine for pool p after an error or a nil response: resps <- nil
F_SendNil(p) ==
    /\ tasks["serve"][0][p].pc = "send1"
    /\ Len(resps["serve"][0]) < LenPools
    /\ resps' = [resps EXCEPT !["serve"][0] = Append(@, "nil")]
    /\ tasks' = [tasks EXCEPT !["serve"][0][p].pc = "send2"]
    /\ UNCHANGED <<pools, conns, calls, ctxDone, closer, listening, timerPc,
                   currentTime, panicked, oldVars>>

\* the goroutine for pool p, last statement: resps <- r
F_SendResult(p) ==
    /\ tasks["serve"][0][p].pc = "send2"
    /\ Len(resps["serve"][0]) < LenPools
    /\ resps' = [resps EXCEPT !["serve"][0] =
                    Append(@, tasks["serve"][0][p].r)]
    /\ tasks' = [tasks EXCEPT !["serve"][0][p].pc = "done"]
    /\ UNCHANGED <<pools, conns, calls, ctxDone, closer, listening, timerPc,
                   currentTime, panicked, oldVars>>

\* one receive of the loop of forwardMessageAndGetResponse: the call
\* returns an acceptable response, goes on to the next receive, or
\* returns nothing after len(s.pools) receives
F_Recv ==
    /\ calls["serve"].pc = "recv"
    /\ resps["serve"][0] # <<>>
    /\ resps' = [resps EXCEPT !["serve"][0] = Tail(@)]
    /\ calls' = [calls EXCEPT !["serve"] =
                    IF Head(resps["serve"][0]) = "ok"
                    THEN Finished("serve", "answer")
                    ELSE IF calls["serve"].n + 1 < LenPools
                    THEN [@ EXCEPT !.n = @ + 1]
                    ELSE [Finished("serve", "none") EXCEPT !.nils = {0}]]
    /\ UNCHANGED <<pools, conns, tasks, ctxDone, closer, listening, timerPc,
                   currentTime, panicked, oldVars>>

NextForward ==
    \/ F_Start
    \/ \E p \in DOMAIN pools : \E k \in Kinds : F_Exchange(p, k)
    \/ \E p \in DOMAIN pools : F_SendNil(p)
    \/ \E p \in DOMAIN pools : F_SendResult(p)
    \/ F_Recv

SpecForward == InitForward /\ [][NextForward]_vars

\* the call of forwardMessageAndGetResponse has returned
ForwardReturned == calls["serve"].served > 0

\* the goroutine for pool p waits to send, the channel is full and nothing
\* will receive from it
BlockedSend(p) ==
    /\ ForwardReturned
    /\ tasks["serve"][0][p].pc \in {"send1", "send2"}
    /\ Len(resps["serve"][0]) = LenPools

\* C37: whatever the number of pools and whichever upstreams fail, every
\* goroutine of forwardMessageAndGetResponse ends: none waits for ever to
\* send on resps after the call has returned.
C37_NoSendBlocks == \A p \in DOMAIN pools : ~BlockedSend(p)

\* what holds of the code: with one or two pools no send waits for ever
C37_TwoPoolsNoSendBlocks ==
    LenPools <= 2 => \A p \in DOMAIN pools : ~BlockedSend(p)

\* the goroutine of call a of caller c for pool p holds a connection and
\* is about to call SetDeadline(s.now().Add(connectionTimeout)) on it
SetsDeadline(c, a, p) ==
    /\ tasks[c][a][p].pc = "io"
    /\ tasks[c][a][p].conn # NoConn

\* C38: while the server serves, now() is behind the time by one
\* timerResolution at most, so the deadline a goroutine sets on its
\* connection, now() + connectionTimeout, is not in the past when it is
\* set, for a query handled before the first tick as for any other.
C38_DeadlineInFuture ==
    \A c \in Callers : \A a \in Attempts : \A p \in Pools :
        (~ctxDone /\ SetsDeadline(c, a, p)) => Deadlines = {"future"}

\* what holds of the code: the deadline is in the future for the queries
\* handled between the first tick and the return of the timer
C38_InFutureOnceTicked ==
    \A c \in Callers : \A a \in Attempts : \A p \in Pools :
        (timerPc = "run" /\ currentTime # 0 /\ SetsDeadline(c, a, p))
            => \A dl \in Deadlines : Exchanges(dl) = Kinds

\* cache.get of q at time t gives the stored value with the short TTL and
\* false: the entry is soft-expired
SoftExpired(cc, t, q) ==
    /\ ~cacheGet(cc, t, q).ok
    /\ cacheGet(cc, t, q).m # NilMsg

\* the step is a turn of the refresher for a question whose entry is
\* soft-expired, and the upstreams gave a response with one of rcodes
AcceptedRefresh(rcodes) ==
    /\ last'.op = "refresh"
    /\ nops' = nops + 1
    /\ last'.m # NilMsg
    /\ last'.m.Rcode \in rcodes
    /\ SoftExpired(cache, wall, last'.q)

DeadCounts == 0 .. connectionsPerUpstream

\* NewServer(2, false) with the default upstreams, after queries whose
\* responses were not cached and whose connections have died in the pools
InitDead ==
    /\ uintMod = MaxUint
    /\ newSize = 2
    /\ cache = NewCache(newSize, FALSE).c
    /\ newErr = FALSE
    /\ exp = <<>>
    /\ hits = 0
    /\ misses = 0
    /\ nops = 0
    /\ last = NoAnswer
    /\ wall = [s |-> 0 - (minTTL + 1), h |-> 0]
    /\ rq = <<>>
    /\ lastPut = <<>>
    /\ store = newStore(0, byTime)
    /\ \E d \in [Pools -> DeadCounts] :
          /\ pools = [p \in Pools |->
                         [newPool(connectionsPerUpstream) EXCEPT
                             !.buf = [i \in 1 .. d[p] |-> i]]]
          /\ conns = [p \in Pools |-> [i \in ConnIds |->
                         IF i <= d[p] THEN [NewConn EXCEPT !.dead = TRUE]
                         ELSE NoConnRec]]
    /\ tasks = [c \in Callers |-> [a \in Attempts |-> [p \in Pools |-> NoTask]]]
    /\ calls = [c \in Callers |-> NoCall]
    /\ resps = [c \in Callers |-> [a \in Attempts |-> <<>>]]
    /\ ctxDone = FALSE
    /\ closer = [pc |-> "wait", p |-> 1]
    /\ listening = TRUE
    /\ timerPc = "run"
    /\ currentTime = 1
    /\ panicked = FALSE

\* the connection pool.get of pool p gives now
Taken(p) ==
    IF pools[p].buf # <<>> THEN Head(pools[p].buf) ELSE Dialed(conns[p])

\* the one query
D_Serve(q) == calls["serve"].served = 0 /\ Serve(q)

\* exchangeMessages for pool p where dialing succeeds and the exchange
\* ends with an error on a dead connection and with a NOERROR response on
\* any other
D_Resolve(c, a, p) ==
    /\ T_Resolve(c, a, p)
    /\ tasks'[c][a][p].r # "bad"
    /\ conns[p][Taken(p)].dead <=> conns'[p][Taken(p)].st = "none"

\* the loop of forwardMessageAndCacheResponse: the next call of
\* forwardMessageAndGetResponse, which starts its goroutines whatever has
\* become of those of the calls before
D_Retry(c) ==
    /\ calls[c].pc = "retry"
    /\ calls' = [calls EXCEPT ![c].pc = "recv", ![c].a = @ + 1, ![c].n = 0]
    /\ tasks' = Spawned(tasks, c, calls[c].a + 1)
    /\ resps' = [resps EXCEPT ![c][calls[c].a + 1] = <<>>]
    /\ UNCHANGED <<pools, conns, ctxDone, closer, listening, timerPc,
                   currentTime, panicked, oldVars>>

NextDead ==
    \/ \E q \in NetQueries : D_Serve(q)
    \/ \E a \in Attempts : \E p \in Pools : D_Resolve("serve", a, p)
    \/ \E a \in Attempts : \E p \in Pools : T_SendNil("serve", a, p)
    \/ \E a \in Attempts : \E p \in Pools : T_SendResult("serve", a, p)
    \/ Recv("serve")
    \/ D_Retry("serve")

SpecDead == InitDead /\ [][NextDead]_vars

\* C40: a query that misses the cache while some or all of the buffered
\* connections are dead, where dialing succeeds and every new connection
\* gets an acceptable answer, is answered within its
\* connectionsPerUpstream + 1 calls of forwardMessageAndGetResponse and
\* not with SERVFAIL.
C40_DeadAbsorbed == calls["serve"].reply # "servfail"

\* what holds of the code: the query is answered SERVFAIL only after
\* connectionsPerUpstream + 1 calls that each closed a dead connection
\* of some pool, so not where fewer than that many were dead
C40_ServfailAfterThreeDead ==
    calls["serve"].reply = "servfail"
        => /\ calls["serve"].nils = Attempts
           /\ Cardinality({i \in ConnIds : \E p \in Pools :
                                              conns[p][i].dead})
                 <= NPools * connectionsPerUpstream
                       - (connectionsPerUpstream + 1)

=============================================================================
